---- MODULE Spec2Model ----
(***************************************************************************)
(* GitGud: repository-state analysis and recommendation engine.           *)
(*                                                                         *)
(* The model follows the Python sources: GitService (git_service.py),      *)
(* ContextBuilder (context_builder.py), HeuristicProvider (heuristic.py),  *)
(* OllamaProvider (ollama.py), AIService (ai_service.py) and the push and  *)
(* resolve workflows (commands/push.py, commands/resolve.py).              *)
(*                                                                         *)
(* Python strings are TLA+ strings; Len, SubSeq and \o act on them, so the *)
(* string conversions of the code (strip, split, replace) are computed     *)
(* character by character.                                                 *)
(***************************************************************************)
EXTENDS Integers, Sequences, FiniteSets, TLC

VARIABLES
    workflow,     \* which entry point runs: "push", "resolve", or one of the
                  \* component specifications below
    pc,           \* position of the running entry point
    repo,         \* the working repository as the VCS library sees it
    yes,          \* push: the -y/--yes flag
    no_ai,        \* push: the --no-ai flag
    context,      \* GitContext returned by build_context, or None
    branch_info,  \* BranchInfo read by the workflow, or None
    providers,    \* AIService.providers, in list order
    pidx,         \* AIService.analyze: index of the provider being tried
    consulted,    \* AIService.analyze: provider calls made so far, in order
    response,     \* the AIResponse the workflow holds, or None
    producer,     \* class name of the provider whose analyze returned response
    cidx,         \* push: index of the next command of response.commands
    executed,     \* calls of GitService.execute_command so far, in order
    action,       \* resolve: answer of the resolution prompt
    need_stash,   \* resolve: context.uncommitted_changes > 0
    pushed,       \* resolve: answer of the "Push your changes now?" prompt
    printed,      \* console messages that report an outcome, in order
    prompts,      \* inquirer prompts answered so far, in order
    calls,        \* GitService queries and fetches made so far, in order
    commit_diff,  \* commit message generator: the lines of the diff text
    git_status,   \* a GitStatus held by the running code, or None
    generated,    \* commit message generator: the calls of generate so far
    timeline      \* the states the repository went through, in order

vars == <<workflow, pc, repo, yes, no_ai, context, branch_info, providers,
          pidx, consulted, response, producer, cidx, executed, action,
          need_stash, pushed, printed, prompts, calls, commit_diff,
          git_status, generated, timeline>>

(***************************************************************************)
(* Bounds of the model.                                                    *)
(***************************************************************************)
\* largest ahead / behind count of the rule-table specification
HMaxCommits == 4
\* largest count of modified / untracked / staged files
MaxFiles == 1
\* largest ahead / behind count of the workflow specification
MaxCommits == 1

None == [tag |-> "None"]
NoneStr == "<None>"

(***************************************************************************)
(* Python string operations used by the code.                              *)
(***************************************************************************)
IsSpace(c) == c = " "

RECURSIVE LStrip(_)
LStrip(s) ==
    IF Len(s) = 0 THEN s
    ELSE IF IsSpace(SubSeq(s, 1, 1)) THEN LStrip(SubSeq(s, 2, Len(s)))
    ELSE s

RECURSIVE RStrip(_)
RStrip(s) ==
    IF Len(s) = 0 THEN s
    ELSE IF IsSpace(SubSeq(s, Len(s), Len(s)))
         THEN RStrip(SubSeq(s, 1, Len(s) - 1))
    ELSE s

\* str.strip()
Strip(s) == RStrip(LStrip(s))

\* length of the first whitespace-free run of s
RECURSIVE TokenLen(_)
TokenLen(s) ==
    IF Len(s) = 0 \/ IsSpace(SubSeq(s, 1, 1)) THEN 0
    ELSE 1 + TokenLen(SubSeq(s, 2, Len(s)))

\* str.split() with no separator: runs of whitespace separate the tokens
RECURSIVE Split(_)
Split(s) ==
    LET t == LStrip(s) IN
    IF Len(t) = 0 THEN << >>
    ELSE << SubSeq(t, 1, TokenLen(t)) >> \o Split(SubSeq(t, TokenLen(t) + 1, Len(t)))

\* str.replace(old, new): every non-overlapping occurrence, left to right
RECURSIVE Replace(_, _, _)
Replace(s, old, new) ==
    IF Len(s) < Len(old) \/ Len(old) = 0 THEN s
    ELSE IF SubSeq(s, 1, Len(old)) = old
         THEN new \o Replace(SubSeq(s, Len(old) + 1, Len(s)), old, new)
    ELSE SubSeq(s, 1, 1) \o Replace(SubSeq(s, 2, Len(s)), old, new)

\* str.startswith, str.endswith, `sub in s`
StartsWith(s, prefix) ==
    Len(s) >= Len(prefix) /\ SubSeq(s, 1, Len(prefix)) = prefix

EndsWith(s, suffix) ==
    Len(s) >= Len(suffix) /\ SubSeq(s, Len(s) - Len(suffix) + 1, Len(s)) = suffix

Contains(s, sub) ==
    \E i \in 1..(Len(s) - Len(sub) + 1) : SubSeq(s, i, i + Len(sub) - 1) = sub

UpperCase == "ABCDEFGHIJKLMNOPQRSTUVWXYZ"
LowerCase == "abcdefghijklmnopqrstuvwxyz"

LowerChar(c) ==
    IF \E i \in 1..Len(UpperCase) : SubSeq(UpperCase, i, i) = c
    THEN LET i == CHOOSE k \in 1..Len(UpperCase) : SubSeq(UpperCase, k, k) = c
         IN SubSeq(LowerCase, i, i)
    ELSE c

\* str.lower()
RECURSIVE Lower(_)
Lower(s) ==
    IF Len(s) = 0 THEN s
    ELSE LowerChar(SubSeq(s, 1, 1)) \o Lower(SubSeq(s, 2, Len(s)))

\* str.split(sep) with a separator: the pieces between its occurrences
RECURSIVE SplitOn(_, _)
SplitOn(s, sep) ==
    IF ~Contains(s, sep) THEN << s >>
    ELSE LET i == CHOOSE k \in 1..Len(s) :
                    /\ SubSeq(s, k, k + Len(sep) - 1) = sep
                    /\ \A j \in 1..(k - 1) : SubSeq(s, j, j + Len(sep) - 1) # sep
         IN << SubSeq(s, 1, i - 1) >>
            \o SplitOn(SubSeq(s, i + Len(sep), Len(s)), sep)

\* sep.join(items)
RECURSIVE Join(_, _)
Join(items, sep) ==
    IF items = << >> THEN ""
    ELSE IF Len(items) = 1 THEN items[1]
    ELSE items[1] \o sep \o Join(Tail(items), sep)

Range(q) == { q[i] : i \in DOMAIN q }

\* A multi-line text (a diff, a reply of the model) is given by its lines,
\* text.split('\n'): a non-empty sequence of strings without line breaks.
EmptyText == << "" >>

\* `sub in text` for a sub without a line break
TextContains(text, sub) == \E i \in DOMAIN text : Contains(text[i], sub)

RECURSIVE LStripText(_)
LStripText(text) ==
    IF text = << >> THEN EmptyText
    ELSE IF LStrip(Head(text)) = "" THEN LStripText(Tail(text))
    ELSE << LStrip(Head(text)) >> \o Tail(text)

RECURSIVE RStripText(_)
RStripText(text) ==
    IF text = << >> THEN EmptyText
    ELSE IF RStrip(text[Len(text)]) = ""
         THEN RStripText(SubSeq(text, 1, Len(text) - 1))
    ELSE SubSeq(text, 1, Len(text) - 1) \o << RStrip(text[Len(text)]) >>

\* str.strip() of a multi-line text
StripText(text) == RStripText(LStripText(text))

(***************************************************************************)
(* The repository behind GitService.repo.                                  *)
(*   valid     Repo(path) succeeded (is_git_repository)                    *)
(*   remotes   repo.remotes: "none", "origin" (a remote named origin) or   *)
(*             "other" (remotes, none of them named origin)                *)
(*   detached  active_branch raises TypeError                              *)
(*   tracking  active_branch.tracking_branch() is not None                 *)
(*   ahead     |tracking..HEAD|      behind     |HEAD..tracking|           *)
(*   modified  |index.diff(None)|    untracked  |untracked_files|          *)
(*   staged    |index.diff("HEAD")|                                        *)
(*   fail      the step of the tracking-branch block of get_status that    *)
(*             raises: "none", "tracking" (tracking_branch()), "ahead" or  *)
(*             "behind" (the iter_commits call of that count)              *)
(* The counts are those the status reads of one run observe.  What a git   *)
(* operation does to the repository is the VCS engine's business; no       *)
(* workflow reads the status again after it has executed a command.        *)
(***************************************************************************)
RepoRec(v, rem, d, t, f, a, b, m, u, s) ==
    [valid |-> v, remotes |-> rem, detached |-> d, tracking |-> t, fail |-> f,
     ahead |-> a, behind |-> b, modified |-> m, untracked |-> u, staged |-> s]

TrackingFailures == {"none", "tracking", "ahead", "behind"}

RemoteConfigs == {"none", "origin", "other"}

\* repositories with commit counts up to n: counts exist only with a tracking
\* branch, a tracking branch only on an attached HEAD
ReposUpTo(n) ==
    { RepoRec(FALSE, "none", FALSE, FALSE, "none", 0, 0, 0, 0, 0) }
    \cup { RepoRec(TRUE, rem, d, FALSE, "none", 0, 0, m, u, s) :
             rem \in RemoteConfigs, d \in BOOLEAN,
             m \in 0..MaxFiles, u \in 0..MaxFiles, s \in 0..MaxFiles }
    \cup { RepoRec(TRUE, rem, FALSE, TRUE, f, ab[1], ab[2], mus[1], mus[2], mus[3]) :
             rem \in RemoteConfigs, f \in TrackingFailures,
             ab \in (0..n) \X (0..n),
             mus \in (0..MaxFiles) \X (0..MaxFiles) \X (0..MaxFiles) }

(***************************************************************************)
(* Outcome of a call: a returned value or a raised exception.              *)
(***************************************************************************)
Returned(v) == [raised |-> FALSE, value |-> v]
Raised(e) == [raised |-> TRUE, error |-> e]

(***************************************************************************)
(* GitService                                                              *)
(***************************************************************************)
is_git_repository(r) == r.valid

get_status(r) ==
    IF ~r.valid THEN None
    ELSE
      LET current_branch == IF r.detached THEN "HEAD (detached)" ELSE "main"
          \* the try block of lines 51-61 is entered and runs up to the step
          \* that raises; what was assigned before stays assigned
          attached == current_branch # "HEAD (detached)"
          tracking == attached /\ r.tracking /\ r.fail # "tracking"
          ahead == IF tracking /\ r.fail # "ahead" THEN r.ahead ELSE 0
          behind == IF tracking /\ r.fail \notin {"ahead", "behind"}
                    THEN r.behind ELSE 0
          modified == r.modified
          created == r.untracked
          staged == r.staged
      IN [current   |-> current_branch,
          tracking  |-> IF tracking THEN "origin/main" ELSE NoneStr,
          ahead     |-> ahead,
          behind    |-> behind,
          modified  |-> modified,
          created   |-> created,
          deleted   |-> 0,
          conflicted |-> << >>,
          is_clean  |-> (modified = 0 /\ created = 0 /\ staged = 0)]

get_branch_info_EitherSide(r) ==
    LET status == get_status(r) IN
    IF status = None THEN None
    ELSE [local  |-> status.current,
          remote |-> status.tracking,
          ahead  |-> status.ahead,
          behind |-> status.behind,
          is_divergent |-> (status.ahead > 0 \/ status.behind > 0)]

get_branch_info(r) ==
    LET status == get_status(r) IN
    IF status = None THEN None
    ELSE [local  |-> status.current,
          remote |-> status.tracking,
          ahead  |-> status.ahead,
          behind |-> status.behind,
          is_divergent |-> (status.ahead > 0 /\ status.behind > 0)]

\* fetch(): net_ok is the outcome of the underlying remote.fetch()
fetch(r, net_ok) ==
    IF ~r.valid THEN Returned(FALSE)
    ELSE IF r.remotes = "none" THEN Returned(TRUE)
    ELSE IF r.remotes = "origin"
         THEN (IF net_ok THEN Returned(TRUE) ELSE Returned(FALSE))
    \* remotes.origin raises AttributeError; the handler fetches remotes[0]
    \* outside of any try block
    ELSE (IF net_ok THEN Returned(TRUE) ELSE Raised("GitCommandError"))

\* The try block of execute_command (git_service.py 146-163): vcs_ok is the
\* outcome of the git operation, if one is invoked.  invoked is the tokens
\* <<git_command>> \o git_args handed to the VCS (empty: nothing invoked) and
\* vcs what became of that operation.
execute_command_try(command, vcs_ok) ==
    LET split == Split(Strip(command)) IN
    \* parts[0] on an empty list
    IF split = << >>
    THEN [raised |-> TRUE, error |-> "IndexError", invoked |-> << >>, vcs |-> "none"]
    ELSE
      LET parts == IF split[1] = "git" THEN Tail(split) ELSE split IN
      IF parts = << >>
      THEN [raised |-> FALSE, value |-> FALSE, invoked |-> << >>, vcs |-> "none"]
      ELSE IF vcs_ok
      THEN [raised |-> FALSE, value |-> TRUE, invoked |-> parts, vcs |-> "ok"]
      ELSE [raised |-> TRUE, error |-> "GitCommandError", invoked |-> parts,
            vcs |-> "failed"]

NoOperation == [raised |-> FALSE, ret |-> FALSE, invoked |-> << >>, vcs |-> "none"]

execute_command_Unprotected(r, command, vcs_ok) ==
    IF ~r.valid THEN NoOperation
    ELSE
      LET body == execute_command_try(command, vcs_ok) IN
      [raised |-> body.raised, ret |-> IF body.raised THEN FALSE ELSE body.value,
       invoked |-> body.invoked, vcs |-> body.vcs]

\* execute_command(command): raised tells whether an exception leaves the
\* method, ret is the returned boolean
execute_command(r, command, vcs_ok) ==
    IF ~r.valid THEN NoOperation
    ELSE
      LET body == execute_command_try(command, vcs_ok) IN
      \* except Exception: return False
      [raised |-> FALSE, ret |-> IF body.raised THEN FALSE ELSE body.value,
       invoked |-> body.invoked, vcs |-> body.vcs]

(***************************************************************************)
(* ContextBuilder                                                          *)
(***************************************************************************)
\* an entry of the log of GitService calls: the method, what it returned
\* ("raised" when it raised) and, for fetch, the outcome of the network
GitCall(method, outcome, net) ==
    [method |-> method, outcome |-> outcome, net |-> net]

RepositoryCall(r) ==
    GitCall("is_git_repository", IF is_git_repository(r) THEN "True" ELSE "False", "unused")

FetchCall(r, net_ok) ==
    GitCall("fetch",
            IF fetch(r, net_ok).raised THEN "raised"
            ELSE IF fetch(r, net_ok).value THEN "True" ELSE "False",
            IF ~r.valid \/ r.remotes = "none" THEN "unused"
            ELSE IF net_ok THEN "ok" ELSE "failed")

StatusCall(r) ==
    GitCall("get_status", IF get_status(r) = None THEN "None" ELSE "GitStatus", "unused")

\* get_branch_info() and the get_status() it makes
BranchInfoCalls(r) ==
    << GitCall("get_branch_info",
               IF get_branch_info(r) = None THEN "None" ELSE "BranchInfo", "unused"),
       StatusCall(r) >>

GitContext_DivergenceOfStatus(status, info) ==
    [local_branch        |-> info.local,
     remote_branch       |-> info.remote,
     commits_ahead       |-> info.ahead,
     commits_behind      |-> info.behind,
     uncommitted_changes |-> status.modified + status.created + status.deleted,
     staged_changes      |-> 0,
     has_stash           |-> FALSE,
     is_divergent        |-> (status.ahead > 0 /\ status.behind > 0),
     conflicting_files   |-> status.conflicted]

\* context_builder.py 35-45: the GitContext made of the status and the
\* branch info that build_context has read
GitContext(status, info) ==
    [local_branch        |-> info.local,
     remote_branch       |-> info.remote,
     commits_ahead       |-> info.ahead,
     commits_behind      |-> info.behind,
     uncommitted_changes |-> status.modified + status.created + status.deleted,
     staged_changes      |-> 0,
     has_stash           |-> FALSE,
     is_divergent        |-> info.is_divergent,
     conflicting_files   |-> status.conflicted]

build_context_FetchMustSucceed(r, net_ok) ==
    IF ~is_git_repository(r)
    THEN [raised |-> FALSE, value |-> None, calls |-> << RepositoryCall(r) >>]
    ELSE IF fetch(r, net_ok).raised
    THEN [raised |-> TRUE, error |-> fetch(r, net_ok).error,
          calls |-> << RepositoryCall(r), FetchCall(r, net_ok) >>]
    ELSE IF ~fetch(r, net_ok).value
    THEN [raised |-> FALSE, value |-> None,
          calls |-> << RepositoryCall(r), FetchCall(r, net_ok) >>]
    ELSE
      LET status == get_status(r)
          info == get_branch_info(r)
          made == << RepositoryCall(r), FetchCall(r, net_ok), StatusCall(r) >>
                  \o BranchInfoCalls(r)
      IN IF status = None \/ info = None
         THEN [raised |-> FALSE, value |-> None, calls |-> made]
         ELSE [raised |-> FALSE, calls |-> made, value |->
              [local_branch        |-> info.local,
               remote_branch       |-> info.remote,
               commits_ahead       |-> info.ahead,
               commits_behind      |-> info.behind,
               uncommitted_changes |-> status.modified + status.created + status.deleted,
               staged_changes      |-> 0,
               has_stash           |-> FALSE,
               is_divergent        |-> info.is_divergent,
               conflicting_files   |-> status.conflicted]]

build_context_ModifiedOnly(r, net_ok) ==
    IF ~is_git_repository(r)
    THEN [raised |-> FALSE, value |-> None, calls |-> << RepositoryCall(r) >>]
    ELSE IF fetch(r, net_ok).raised
    THEN [raised |-> TRUE, error |-> fetch(r, net_ok).error,
          calls |-> << RepositoryCall(r), FetchCall(r, net_ok) >>]
    ELSE
      LET status == get_status(r)
          info == get_branch_info(r)
          made == << RepositoryCall(r), FetchCall(r, net_ok), StatusCall(r) >>
                  \o BranchInfoCalls(r)
      IN IF status = None \/ info = None
         THEN [raised |-> FALSE, value |-> None, calls |-> made]
         ELSE [raised |-> FALSE, calls |-> made, value |->
              [local_branch        |-> info.local,
               remote_branch       |-> info.remote,
               commits_ahead       |-> info.ahead,
               commits_behind      |-> info.behind,
               uncommitted_changes |-> status.modified,
               staged_changes      |-> 0,
               has_stash           |-> FALSE,
               is_divergent        |-> info.is_divergent,
               conflicting_files   |-> status.conflicted]]

build_context_CountsStaged(r, net_ok) ==
    IF ~is_git_repository(r)
    THEN [raised |-> FALSE, value |-> None, calls |-> << RepositoryCall(r) >>]
    ELSE IF fetch(r, net_ok).raised
    THEN [raised |-> TRUE, error |-> fetch(r, net_ok).error,
          calls |-> << RepositoryCall(r), FetchCall(r, net_ok) >>]
    ELSE
      LET status == get_status(r)
          info == get_branch_info(r)
          made == << RepositoryCall(r), FetchCall(r, net_ok), StatusCall(r) >>
                  \o BranchInfoCalls(r)
      IN IF status = None \/ info = None
         THEN [raised |-> FALSE, value |-> None, calls |-> made]
         ELSE [raised |-> FALSE, calls |-> made, value |->
              [local_branch        |-> info.local,
               remote_branch       |-> info.remote,
               commits_ahead       |-> info.ahead,
               commits_behind      |-> info.behind,
               uncommitted_changes |-> status.modified + status.created + status.deleted
                                       + r.staged,
               staged_changes      |-> 0,
               has_stash           |-> FALSE,
               is_divergent        |-> info.is_divergent,
               conflicting_files   |-> status.conflicted]]

\* build_context(): the outcome and the GitService calls it made, in order
build_context(r, net_ok) ==
    IF ~is_git_repository(r)
    THEN [raised |-> FALSE, value |-> None, calls |-> << RepositoryCall(r) >>]
    ELSE IF fetch(r, net_ok).raised
    THEN [raised |-> TRUE, error |-> fetch(r, net_ok).error,
          calls |-> << RepositoryCall(r), FetchCall(r, net_ok) >>]
    ELSE
      LET status == get_status(r)
          info == get_branch_info(r)
          made == << RepositoryCall(r), FetchCall(r, net_ok), StatusCall(r) >>
                  \o BranchInfoCalls(r)
      IN IF status = None \/ info = None
         THEN [raised |-> FALSE, value |-> None, calls |-> made]
         ELSE [raised |-> FALSE, calls |-> made,
               value |-> GitContext(status, info)]

(***************************************************************************)
(* HeuristicProvider                                                       *)
(***************************************************************************)
AIResponse(s, c, why, r, m, conf) ==
    [strategy |-> s, commands |-> c, reasoning |-> why, risks |-> r,
     requires_manual_review |-> m, confidence |-> conf]

HeuristicIsAvailable == TRUE

\* Clean push scenario
CleanPushCond(ctx) ==
    ctx.commits_ahead > 0 /\ ctx.commits_behind = 0 /\ ctx.uncommitted_changes = 0

CleanPushResponse_Conf90 ==
    AIResponse("push", << "git push" >>,
               "Local branch is ahead of remote with no conflicts. Safe to push.",
               << >>, FALSE, 90)

CleanPushResponse ==
    AIResponse("push", << "git push" >>,
               "Local branch is ahead of remote with no conflicts. Safe to push.",
               << >>, FALSE, 95)

\* Need to pull first
NeedPullCond_NoDivergenceGuard(ctx) ==
    ctx.commits_behind > 0 /\ ctx.uncommitted_changes = 0

NeedPullCond(ctx) ==
    ctx.commits_behind > 0 /\ ~ctx.is_divergent /\ ctx.uncommitted_changes = 0

NeedPullResponse ==
    AIResponse("pull-then-push", << "git pull --rebase", "git push" >>,
               "Remote has new commits. Pull with rebase to maintain linear history.",
               << "Rebase may cause conflicts that need manual resolution" >>,
               FALSE, 85)

\* Uncommitted changes + need to pull
StashPullCond(ctx) ==
    ctx.commits_behind > 0 /\ ctx.uncommitted_changes > 0

StashPullResponse ==
    AIResponse("stash-pull-push",
               << "git stash", "git pull --rebase", "git stash pop", "git push" >>,
               "Uncommitted changes need to be stashed before pulling.",
               << "Stash pop may cause conflicts", "Rebase may cause conflicts" >>,
               FALSE, 75)

\* Divergent branches
DivergentCond(ctx) == ctx.is_divergent

DivergentResponse_NoReview ==
    AIResponse("manual", << >>,
               "Branches have diverged. Manual review required to choose between rebase, merge, or force push.",
               << "Force push will overwrite remote", "Merge creates merge commit",
                  "Rebase rewrites history" >>,
               FALSE, 50)

DivergentResponse ==
    AIResponse("manual", << >>,
               "Branches have diverged. Manual review required to choose between rebase, merge, or force push.",
               << "Force push will overwrite remote", "Merge creates merge commit",
                  "Rebase rewrites history" >>,
               TRUE, 50)

\* Nothing to push - clean
NothingToPushCond(ctx) ==
    ctx.commits_ahead = 0 /\ ctx.uncommitted_changes = 0

NothingToPushResponse ==
    AIResponse("manual", << >>,
               "Nothing to push. Working tree is clean and up to date.",
               << >>, FALSE, 100)

\* Uncommitted changes but nothing to push
UncommittedOnlyCond_AnyAhead(ctx) == ctx.uncommitted_changes > 0

UncommittedOnlyCond(ctx) ==
    ctx.commits_ahead = 0 /\ ctx.uncommitted_changes > 0

UncommittedOnlyResponse_NoReview ==
    AIResponse("manual", << >>,
               "You have uncommitted changes but no commits to push. Commit your changes first with: git add . && git commit -m \"your message\"",
               << >>, FALSE, 100)

UncommittedOnlyResponse ==
    AIResponse("manual", << >>,
               "You have uncommitted changes but no commits to push. Commit your changes first with: git add . && git commit -m \"your message\"",
               << >>, TRUE, 100)

\* Fallback
FallbackResponse ==
    AIResponse("manual", << >>,
               "Complex repository state detected. Manual review recommended.",
               << "Unable to determine safe automated approach" >>,
               TRUE, 30)

HeuristicAnalyze(ctx) ==
    IF CleanPushCond(ctx) THEN CleanPushResponse
    ELSE IF NeedPullCond(ctx) THEN NeedPullResponse
    ELSE IF StashPullCond(ctx) THEN StashPullResponse
    ELSE IF DivergentCond(ctx) THEN DivergentResponse
    ELSE IF NothingToPushCond(ctx) THEN NothingToPushResponse
    ELSE IF UncommittedOnlyCond(ctx) THEN UncommittedOnlyResponse
    ELSE FallbackResponse

(***************************************************************************)
(* OllamaProvider                                                          *)
(* The model service is the environment: every call draws its answer.      *)
(***************************************************************************)
\* answers of GET /api/tags: a status code, or the request raises
ProbeAnswers == {"200", "500", "error"}

OllamaIsAvailable(probe) ==
    IF probe = "error" THEN FALSE ELSE probe = "200"

\* a JSON object of the model is a function from its keys to their values
JsonGet(obj, k, default) == IF k \in DOMAIN obj THEN obj[k] ELSE default

ReplyPush ==
    [strategy |-> "push", commands |-> << "git push" >>, reasoning |-> "ahead of remote"]

ReplyReview ==
    [strategy |-> "rebase", commands |-> << "git pull --rebase", "git push" >>,
     reasoning |-> "rebase onto remote", risks |-> << "conflicts" >>,
     requires_manual_review |-> TRUE, confidence |-> 99]

ReplyNoCommands ==
    [strategy |-> "manual", commands |-> << >>, reasoning |-> "nothing to do",
     risks |-> << >>, requires_manual_review |-> FALSE, confidence |-> 90]

ReplyMerge ==
    [strategy |-> "merge", commands |-> << "git pull", "push" >>,
     reasoning |-> "merge remote", requires_manual_review |-> FALSE,
     confidence |-> 60]

ReplyNoReasoning ==
    [strategy |-> "push", commands |-> << "git push" >>, confidence |-> 80]

\* a reply outside the format the prompt asks for
ReplyUnchecked ==
    [strategy |-> "force-push", commands |-> << "git push --force" >>,
     reasoning |-> "overwrite remote", confidence |-> 150]

\* a plan that pushes two branches, the first one named fix-git
ReplyBranchNamedGit ==
    [strategy |-> "push", commands |-> << "git push origin fix-git main" >>,
     reasoning |-> "push both branches", confidence |-> 70]

\* the `response` text of the generation reply: not JSON, or a JSON object
ModelTexts ==
    { [json |-> FALSE] }
    \cup { [json |-> TRUE, obj |-> o] :
             o \in {ReplyPush, ReplyReview, ReplyNoCommands, ReplyMerge,
                    ReplyNoReasoning, ReplyUnchecked,
                    ReplyBranchNamedGit} }

\* answers of POST /api/generate: the request raises, a non-200 status, a body
\* that is not JSON, or a 200 body whose `response` field is the model's text
GenerateAnswers ==
    { [kind |-> "error"], [kind |-> "status"], [kind |-> "body_not_json"] }
    \cup { [kind |-> "ok", text |-> t] : t \in ModelTexts }

RequiredFields == {"strategy", "commands", "reasoning"}

_parse_response_CommandsOptional(text) ==
    IF ~text.json THEN Raised("Failed to parse AI response: JSONDecodeError")
    ELSE IF ~({"strategy", "reasoning"} \subseteq DOMAIN text.obj)
    THEN Raised("Failed to parse AI response: Missing required fields")
    ELSE Returned(AIResponse(text.obj["strategy"],
                             JsonGet(text.obj, "commands", << >>),
                             text.obj["reasoning"],
                             JsonGet(text.obj, "risks", << >>),
                             JsonGet(text.obj, "requires_manual_review", FALSE),
                             JsonGet(text.obj, "confidence", 50)))

_parse_response(text) ==
    IF ~text.json THEN Raised("Failed to parse AI response: JSONDecodeError")
    ELSE IF ~(RequiredFields \subseteq DOMAIN text.obj)
    THEN Raised("Failed to parse AI response: Missing required fields")
    ELSE Returned(AIResponse(text.obj["strategy"],
                             JsonGet(text.obj, "commands", << >>),
                             text.obj["reasoning"],
                             JsonGet(text.obj, "risks", << >>),
                             JsonGet(text.obj, "requires_manual_review", FALSE),
                             JsonGet(text.obj, "confidence", 50)))

OllamaAnalyze(ctx, answer) ==
    IF answer.kind = "error" THEN Raised("Ollama analysis failed: ConnectionError")
    ELSE IF answer.kind = "status" THEN Raised("Ollama analysis failed: Ollama returned status 500")
    ELSE IF answer.kind = "body_not_json" THEN Raised("Ollama analysis failed: JSONDecodeError")
    ELSE IF _parse_response(answer.text).raised
         THEN Raised("Ollama analysis failed: " \o _parse_response(answer.text).error)
    ELSE _parse_response(answer.text)

(***************************************************************************)
(* AIService                                                               *)
(***************************************************************************)
AIServiceInit_HeuristicFirst(provider_type) ==
    << "HeuristicProvider" >>
    \o (IF provider_type = "ollama" THEN << "OllamaProvider" >> ELSE << >>)

AIServiceInit_NoFallback(provider_type) ==
    IF provider_type = "ollama" THEN << "OllamaProvider" >>
    ELSE << "HeuristicProvider" >>

AIServiceInit_AlwaysOllama(provider_type) ==
    << "OllamaProvider", "HeuristicProvider" >>

\* AIService.__init__: the provider list
AIServiceInit(provider_type) ==
    (IF provider_type = "ollama" THEN << "OllamaProvider" >> ELSE << >>)
    \o << "HeuristicProvider" >>

\* provider.is_available() for the provider named p
is_available(p, probe) ==
    IF p = "OllamaProvider" THEN OllamaIsAvailable(probe) ELSE HeuristicIsAvailable

\* provider.analyze(context) for the provider named p
analyze(p, ctx, answer) ==
    IF p = "OllamaProvider" THEN OllamaAnalyze(ctx, answer)
    ELSE Returned(HeuristicAnalyze(ctx))

(***************************************************************************)
(* CommitMessageGenerator (commit_message_generator.py).  The diff is the  *)
(* sequence of its lines; status is a GitStatus.                           *)
(***************************************************************************)
\* _extract_file_names, first loop: the files of the diff headers
RECURSIVE HeaderFiles(_, _)
HeaderFiles(lines, files) ==
    IF lines = << >> THEN files
    ELSE LET line == Head(lines)
             parts == Split(line)
             fname == Replace(Replace(parts[3], "a/", ""), "b/", "")
         IN IF /\ StartsWith(line, "diff --git")
               /\ Len(parts) >= 3
               /\ fname # ""
               /\ fname \notin Range(files)
            THEN HeaderFiles(Tail(lines), Append(files, fname))
            ELSE HeaderFiles(Tail(lines), files)

NotFileNameChars == {"(", ")", "{", "}", "[", "]", ":", ";"}

\* _extract_file_names, second loop: the untracked files listed in the diff
RECURSIVE UntrackedFiles(_, _, _)
UntrackedFiles(lines, files, in_untracked) ==
    IF lines = << >> THEN files
    ELSE LET line == Head(lines)
             fname == Strip(line)
         IN IF Contains(line, "Untracked files:")
            THEN UntrackedFiles(Tail(lines), files, TRUE)
            ELSE IF ~in_untracked
            THEN UntrackedFiles(Tail(lines), files, FALSE)
            ELSE IF fname = ""
            THEN UntrackedFiles(Tail(lines), files, TRUE)
            ELSE IF \E char \in NotFileNameChars : Contains(fname, char)
            THEN UntrackedFiles(Tail(lines), files, TRUE)
            ELSE IF Contains(fname, "/") \/ Contains(fname, ".")
            THEN UntrackedFiles(Tail(lines),
                                IF fname \in Range(files) THEN files
                                ELSE Append(files, fname),
                                TRUE)
            \* a line that is no file name ends the section
            ELSE files

_extract_file_names(diff) ==
    LET files == HeaderFiles(diff, << >>) IN
    IF TextContains(diff, "Untracked files:")
    THEN UntrackedFiles(diff, files, FALSE)
    ELSE files

_summarize_files(files) ==
    IF files = << >> THEN "files"
    ELSE IF Len(files) = 1
    THEN LET fname == files[1]
             pieces == SplitOn(fname, "/")
             base == Replace(Replace(Replace(pieces[Len(pieces)],
                                             ".py", ""), ".js", ""), ".md", "")
         IN Replace(base, "_", " ")
    ELSE IF \A i \in DOMAIN files : Contains(files[i], ".md")
    THEN "documentation"
    ELSE IF \A i \in DOMAIN files : Contains(files[i], ".py")
    THEN "Python modules"
    ELSE IF \A i \in DOMAIN files : Contains(Lower(files[i]), "test")
    THEN "tests"
    ELSE IF \A i \in DOMAIN files :
              Contains(Lower(files[i]), "config") \/ Contains(Lower(files[i]), "setup")
    THEN "configuration"
    ELSE ToString(Len(files)) \o " files"

AddedItem_BareName(diff_line) ==
    IF ~StartsWith(diff_line, "+") THEN << >>
    ELSE LET line == Strip(SubSeq(diff_line, 2, Len(diff_line))) IN
         IF StartsWith(line, "def ")
         THEN LET func_name == Strip(Replace(SplitOn(line, "(")[1], "def ", "")) IN
              IF func_name # "" /\ ~StartsWith(func_name, "_")
              THEN << func_name >> ELSE << >>
         ELSE << >>

\* the item of one line of the diff, as a sequence of zero or one strings
AddedItem(diff_line) ==
    IF ~StartsWith(diff_line, "+") THEN << >>
    ELSE LET line == Strip(SubSeq(diff_line, 2, Len(diff_line))) IN
         IF StartsWith(line, "def ")
         THEN LET func_name == Strip(Replace(SplitOn(line, "(")[1], "def ", "")) IN
              IF func_name # "" /\ ~StartsWith(func_name, "_")
              THEN << "function " \o func_name >> ELSE << >>
         ELSE IF StartsWith(line, "class ")
         THEN LET class_name ==
                    Strip(SplitOn(Replace(SplitOn(line, ":")[1], "class ", ""), "(")[1])
              IN IF class_name # "" THEN << "class " \o class_name >> ELSE << >>
         ELSE IF StartsWith(line, "async def ")
         THEN LET func_name ==
                    Strip(Replace(SplitOn(line, "(")[1], "async def ", ""))
              IN IF func_name # "" /\ ~StartsWith(func_name, "_")
                 THEN << "async function " \o func_name >> ELSE << >>
         ELSE << >>

RECURSIVE AddedItems(_)
AddedItems(lines) ==
    IF lines = << >> THEN << >>
    ELSE AddedItem(Head(lines)) \o AddedItems(Tail(lines))

\* items[:3]
_extract_added_items(diff) ==
    LET items == AddedItems(diff) IN
    SubSeq(items, 1, IF Len(items) < 3 THEN Len(items) ELSE 3)

\* any(keyword in diff.lower() for keyword in keywords)
AnyKeyword(diff, keywords) ==
    \E i \in DOMAIN diff :
        LET line == Lower(diff[i]) IN
        \E keyword \in keywords : Contains(line, keyword)

_looks_like_feature(diff) ==
    AnyKeyword(diff, {"new", "add", "create", "implement", "feature"})

_looks_like_fix(diff) ==
    AnyKeyword(diff, {"fix", "bug", "issue", "error", "correct", "resolve"})

_looks_like_docs(diff, status) ==
    AnyKeyword(diff, {Lower(ext) : ext \in {".md", ".txt", ".rst", "README", "CHANGELOG"}})

_looks_like_refactor(diff) ==
    AnyKeyword(diff, {"refactor", "restructure", "reorganize", "cleanup", "improve"})

\* the changeset size above which the message is only a count of files
LargeChangeset == 50

\* _generate_heuristic 227-300: commit type and description, from the file
\* names and the added items extracted at 222 and 225
HeuristicTypeAndDescription(file_names, added_items, diff, status) ==
    LET has_new_files == status.created > 0
        is_feature == _looks_like_feature(diff)
        is_fix == _looks_like_fix(diff)
        is_docs == _looks_like_docs(diff, status)
        is_refactor == _looks_like_refactor(diff)
    IN
    IF Len(file_names) > LargeChangeset
    THEN << "chore", "update " \o ToString(Len(file_names)) \o " files" >>
    ELSE IF is_feature \/ has_new_files
    THEN << "feat",
            IF Len(added_items) >= 2
            THEN "implement " \o Join(SubSeq(added_items, 1, 2), ", ")
            ELSE IF added_items # << >>
            THEN "implement " \o added_items[1]
            ELSE IF file_names # << >>
            THEN "add " \o _summarize_files(file_names)
            ELSE "add new functionality" >>
    ELSE IF is_fix
    THEN << "fix",
            IF AnyKeyword(diff, {"bug"}) THEN "resolve bug"
            ELSE IF AnyKeyword(diff, {"error"}) THEN "fix error handling"
            ELSE IF file_names # << >>
            THEN "fix issues in " \o _summarize_files(file_names)
            ELSE "resolve issues" >>
    ELSE IF is_docs
    THEN << "docs",
            IF TextContains(diff, "README") THEN "update README"
            ELSE IF file_names # << >>
            THEN "update " \o _summarize_files(file_names)
            ELSE "update documentation" >>
    ELSE IF is_refactor
    THEN << "refactor",
            IF file_names # << >>
            THEN "refactor " \o _summarize_files(file_names)
            ELSE "improve code structure" >>
    \* the branch `elif has_new_files` (293-295) cannot be reached
    ELSE << "chore",
            IF file_names # << >>
            THEN "update " \o _summarize_files(file_names)
            ELSE "update files" >>

\* _generate_heuristic 305-322: the bullet points under the summary
HeuristicDetails(file_names, added_items, status) ==
    LET has_new_files == status.created > 0
    IN
    IF added_items # << >>
    THEN [i \in DOMAIN added_items |-> "- add " \o added_items[i]]
    ELSE IF Len(file_names) > 1 /\ Len(file_names) <= 5
    THEN [i \in DOMAIN file_names |->
            "- " \o (IF has_new_files THEN "add" ELSE "update") \o " " \o file_names[i]]
    ELSE IF Len(file_names) > 5
    THEN << "- modify " \o ToString(Len(file_names)) \o " files" >>
    ELSE << >>

\* _generate_heuristic 302-324: the summary line, then the details if any
HeuristicMessage(type_and_description, details) ==
    LET summary == Join(type_and_description, ": ") IN
    IF details # << >>
    THEN summary \o "\n\n" \o Join(details, "\n")
    ELSE summary

HeuristicFrom_KeywordsOnly(file_names, added_items, diff, status) ==
    HeuristicMessage(
        HeuristicTypeAndDescription(file_names, added_items, diff,
                                    [status EXCEPT !.created = 0]),
        HeuristicDetails(file_names, added_items, status))

\* _generate_heuristic 227-324, after the two extractions
HeuristicFrom(file_names, added_items, diff, status) ==
    HeuristicMessage(
        HeuristicTypeAndDescription(file_names, added_items, diff, status),
        HeuristicDetails(file_names, added_items, status))

_generate_heuristic(diff, status) ==
    HeuristicFrom(_extract_file_names(diff), _extract_added_items(diff),
                  diff, status)

\* The markdown code fence, three backquotes.  A TLA+ string cannot hold a
\* backquote, so the model writes the fence with tildes.
Fence == "~~~"

\* A reply of the model service to the generation request: its `response`
\* text, whether json.loads accepts that text, and if so the parsed value
\* (object tells a JSON object from any other JSON value).
Reply(text, json, object, obj) ==
    [text |-> text, json |-> json, object |-> object, obj |-> obj]

NoReply == Reply(EmptyText, FALSE, FALSE, << >>)

ReplyTypeAndMessage ==
    Reply(<< "{\"type\": \"feat\", \"message\": \"add login\"}" >>, TRUE, TRUE,
          [type |-> "feat", message |-> "add login"])

ReplyMessageOnly ==
    Reply(<< "  {\"message\": \"add login\"}  " >>, TRUE, TRUE,
          [message |-> "add login"])

ReplyTypeOnly ==
    Reply(<< "{\"type\": \"fix\"}" >>, TRUE, TRUE, [type |-> "fix"])

ReplyJsonList == Reply(<< "[]" >>, TRUE, FALSE, << >>)

ReplyFenced ==
    Reply(<< Fence \o "text", "fix: handle null", Fence, "" >>, FALSE, FALSE, << >>)

ReplyFenceOnly == Reply(<< Fence >>, FALSE, FALSE, << >>)

ReplyChatty ==
    Reply(<< "Here is the message:", "feat: add x" >>, FALSE, FALSE, << >>)

ReplyExplained ==
    Reply(<< "feat: add x", "- add the x module", "",
             "This commit message follows the format." >>, FALSE, FALSE, << >>)

ReplyBlank == Reply(<< "  " >>, FALSE, FALSE, << >>)

CommitReplies ==
    { ReplyTypeAndMessage, ReplyMessageOnly, ReplyTypeOnly, ReplyJsonList,
      ReplyFenced, ReplyFenceOnly, ReplyChatty, ReplyExplained, ReplyBlank }

\* answers of POST /api/generate to the generator: the request raises, a
\* non-200 status, a body that is not JSON, a body without a `response`
\* string, or a 200 body with the reply as its `response`
CommitAnswers ==
    { [kind |-> "error"], [kind |-> "status"], [kind |-> "body_not_json"],
      [kind |-> "no_response_text"] }
    \cup { [kind |-> "ok", reply |-> r] : r \in CommitReplies }

_make_request_Raises(answer) ==
    IF answer.kind = "ok"
    THEN Returned([answer.reply EXCEPT !.text = StripText(answer.reply.text)])
    ELSE IF answer.kind = "no_response_text" THEN Returned(NoReply)
    ELSE Raised("RequestException")

\* _make_request: the stripped `response` text of a 200 answer; every
\* failure is swallowed and gives the empty text
_make_request(answer) ==
    IF answer.kind = "ok"
    THEN Returned([answer.reply EXCEPT !.text = StripText(answer.reply.text)])
    ELSE Returned(NoReply)

\* _parse_json_response: "" unless the reply is a JSON object with a message
_parse_json_response(reply) ==
    IF ~reply.json THEN ""
    \* data.get on a value that is no object raises, caught at line 108
    ELSE IF ~reply.object THEN ""
    ELSE LET commit_type == JsonGet(reply.obj, "type", "chore")
             commit_message == JsonGet(reply.obj, "message", "")
         IN IF commit_message # "" THEN commit_type \o ": " \o commit_message
            ELSE ""

WordChars == LowerCase \o UpperCase \o "0123456789_"

IsWordChar(c) == \E i \in 1..Len(WordChars) : SubSeq(WordChars, i, i) = c

RECURSIVE DropWordChars(_)
DropWordChars(s) ==
    IF Len(s) > 0 /\ IsWordChar(SubSeq(s, 1, 1))
    THEN DropWordChars(SubSeq(s, 2, Len(s)))
    ELSE s

\* re.sub(r'^<fence>\w*\s*', '', response)
StripOpeningFence(text) ==
    IF StartsWith(text[1], Fence)
    THEN LStripText(<< DropWordChars(SubSeq(text[1], Len(Fence) + 1, Len(text[1]))) >>
                    \o Tail(text))
    ELSE text

\* re.sub(r'\s*<fence>\s*$', '', response)
StripClosingFence(text) ==
    LET stripped == RStripText(text)
        last == stripped[Len(stripped)]
    IN IF EndsWith(last, Fence)
       THEN RStripText(SubSeq(stripped, 1, Len(stripped) - 1)
                       \o << SubSeq(last, 1, Len(last) - Len(Fence)) >>)
       ELSE text

CommitTypes ==
    {"feat", "fix", "docs", "style", "refactor", "test", "chore", "build",
     "ci", "perf"}

StopPhrases ==
    {"this commit message", "this follows", "this meets", "the type of this",
     "which means that", "by outputting", "as requested", "as specified"}

\* the loop of _clean_ai_response (165-204) from line index i on
RECURSIVE CommitLines(_, _, _)
CommitLines(lines, i, commit_lines) ==
    IF i >= Len(lines) THEN commit_lines
    ELSE LET line == lines[i + 1]
             line_lower == Lower(line)
         IN IF i = 0
            THEN IF \E t \in CommitTypes : StartsWith(line_lower, t \o ":")
                 THEN CommitLines(lines, i + 1, Append(commit_lines, line))
                 ELSE CommitLines(lines, i + 1, commit_lines)
            ELSE IF \E phrase \in StopPhrases : Contains(line_lower, phrase)
            THEN commit_lines
            ELSE IF StartsWith(line, "-") /\ Len(line) < 100
            THEN CommitLines(lines, i + 1, Append(commit_lines, line))
            ELSE IF line = "" /\ commit_lines # << >>
            THEN CommitLines(lines, i + 1, Append(commit_lines, line))
            ELSE IF Len(line) < 100 /\ ~EndsWith(line, ".") /\ i < 5
            THEN CommitLines(lines, i + 1, Append(commit_lines, line))
            ELSE commit_lines

RECURSIVE DropTrailingEmpty(_)
DropTrailingEmpty(lines) ==
    IF lines # << >> /\ lines[Len(lines)] = ""
    THEN DropTrailingEmpty(SubSeq(lines, 1, Len(lines) - 1))
    ELSE lines

RECURSIVE DropLeadingEmpty(_)
DropLeadingEmpty(lines) ==
    IF lines # << >> /\ Head(lines) = "" THEN DropLeadingEmpty(Tail(lines))
    ELSE lines

_clean_ai_response(text) ==
    LET unfenced == StripClosingFence(StripOpeningFence(text))
        replaced == [i \in DOMAIN unfenced |-> Replace(unfenced[i], Fence, "")]
        stripped == StripText(replaced)
        lines == DropLeadingEmpty([i \in DOMAIN stripped |-> Strip(stripped[i])])
        result == Join(DropTrailingEmpty(CommitLines(lines, 0, << >>)), "\n")
    IN IF lines = << >> THEN ""
       ELSE IF result = "" THEN lines[1]
       ELSE result

\* _generate_with_ai: the prompt built of the truncated diff and the status
\* goes to the model service, whose answer is drawn by the caller
_generate_with_ai(diff, status, answer) ==
    LET request == _make_request(answer) IN
    IF request.raised THEN request
    ELSE LET reply == request.value IN
         IF reply.text # EmptyText
         THEN IF _parse_json_response(reply) # ""
              THEN Returned(_parse_json_response(reply))
              ELSE Returned(_clean_ai_response(reply.text))
         ELSE Returned("")

generate_IgnoresProbe(diff, status, probe, answer) ==
    LET ai == _generate_with_ai(diff, status, answer) IN
    IF ~ai.raised
    THEN [raised |-> FALSE, value |-> ai.value, paths |-> << "ai" >>]
    ELSE [raised |-> FALSE, value |-> _generate_heuristic(diff, status),
          paths |-> << "ai", "heuristic" >>]

\* generate: value is the returned message, paths the generation paths that
\* ran, in order
generate(diff, status, probe, answer) ==
    IF OllamaIsAvailable(probe)
    THEN LET ai == _generate_with_ai(diff, status, answer) IN
         IF ~ai.raised
         THEN [raised |-> FALSE, value |-> ai.value, paths |-> << "ai" >>]
         \* except Exception: pass
         ELSE [raised |-> FALSE, value |-> _generate_heuristic(diff, status),
               paths |-> << "ai", "heuristic" >>]
    ELSE [raised |-> FALSE, value |-> _generate_heuristic(diff, status),
          paths |-> << "heuristic" >>]

(***************************************************************************)
(* The push and resolve workflows (commands/push.py, commands/resolve.py). *)
(* pc names the position in the running command; "done" is a normal        *)
(* return, "aborted" is click.Abort, "crashed" an exception nothing        *)
(* catches.                                                                *)
(***************************************************************************)
Report(msg) == printed' = Append(printed, msg)

Init ==
    /\ workflow \in {"push", "resolve"}
    /\ pc = "start"
    /\ repo \in ReposUpTo(MaxCommits)
    /\ yes \in (IF workflow = "push" THEN BOOLEAN ELSE {FALSE})
    /\ no_ai \in (IF workflow = "push" THEN BOOLEAN ELSE {FALSE})
    /\ context = None
    /\ branch_info = None
    /\ providers = << >>
    /\ pidx = 0
    /\ consulted = << >>
    /\ response = None
    /\ producer = NoneStr
    /\ cidx = 0
    /\ executed = << >>
    /\ action = NoneStr
    /\ need_stash = FALSE
    /\ pushed = FALSE
    /\ printed = << >>
    /\ prompts = << >>
    /\ calls = << >>
    /\ commit_diff = << >>
    /\ git_status = None
    /\ generated = << >>
    /\ timeline = << >>

\* push.py 32-37, resolve.py 32-36: GitService() and the repository check
CheckRepository ==
    /\ workflow \in {"push", "resolve"}
    /\ pc = "start"
    /\ calls' = Append(calls, RepositoryCall(repo))
    /\ IF ~is_git_repository(repo)
       THEN /\ Report("Error: Not in a git repository")
            /\ pc' = "aborted"
       ELSE /\ pc' = "build"
            /\ UNCHANGED printed
    /\ UNCHANGED <<commit_diff, git_status, generated, timeline,
                   prompts, workflow, repo, yes, no_ai, context, branch_info,
                   providers, pidx, consulted, response, producer, cidx,
                   executed, action, need_stash, pushed>>

\* push.py 41-49, resolve.py 40-48: build_context(), get_branch_info()
AnalyzeRepository ==
    /\ workflow \in {"push", "resolve"}
    /\ pc = "build"
    /\ \E net_ok \in BOOLEAN :
         LET built == build_context(repo, net_ok)
             info == get_branch_info(repo)
         IN IF built.raised
            THEN /\ calls' = calls \o built.calls
                 /\ pc' = "crashed"
                 /\ UNCHANGED <<commit_diff, git_status, generated, timeline,
                   context, branch_info, printed>>
            ELSE /\ calls' = calls \o built.calls \o BranchInfoCalls(repo)
                 /\ context' = built.value
                 /\ branch_info' = info
                 /\ IF built.value = None \/ info = None
                    THEN /\ Report("Failed to analyze repository")
                         /\ pc' = "aborted"
                    ELSE /\ pc' = IF workflow = "push" THEN "ai" ELSE "divergence"
                         /\ UNCHANGED printed
    /\ UNCHANGED <<commit_diff, git_status, generated, timeline,
                   prompts, workflow, repo, yes, no_ai, providers, pidx,
                   consulted, response, producer, cidx, executed, action,
                   need_stash, pushed>>

\* push.py 67: AIService(provider_type="heuristic" if no_ai else "ollama")
CreateAIService ==
    /\ workflow = "push"
    /\ pc = "ai"
    /\ providers' = AIServiceInit(IF no_ai THEN "heuristic" ELSE "ollama")
    /\ pidx' = 1
    /\ pc' = "analyze"
    /\ UNCHANGED <<commit_diff, git_status, generated, timeline,
                   prompts, calls, workflow, repo, yes, no_ai, context, branch_info, consulted,
                   response, producer, cidx, executed, action, need_stash,
                   pushed, printed>>

\* AIService.analyze leaves its loop over the providers once the provider at
\* index i was the last one: it raises, and push (68-72) aborts
AfterProvider(i) ==
    IF i + 1 > Len(providers)
    THEN /\ Report("AI analysis failed: No AI provider available")
         /\ pc' = "aborted"
    ELSE /\ pc' = "analyze"
         /\ UNCHANGED printed

\* one iteration of the loop of AIService.analyze: is_available() is false
ProviderUnavailable ==
    /\ workflow = "push"
    /\ pc = "analyze"
    /\ pidx <= Len(providers)
    /\ \E probe \in ProbeAnswers :
         /\ ~is_available(providers[pidx], probe)
         /\ consulted' = Append(consulted,
                [provider |-> providers[pidx], outcome |-> "unavailable",
                 detail |-> probe])
    /\ pidx' = pidx + 1
    /\ AfterProvider(pidx)
    /\ UNCHANGED <<commit_diff, git_status, generated, timeline,
                   prompts, calls, workflow, repo, yes, no_ai, context, branch_info, providers,
                   response, producer, cidx, executed, action, need_stash,
                   pushed>>

\* one iteration: is_available() is true and analyze() raises
ProviderRaises ==
    /\ workflow = "push"
    /\ pc = "analyze"
    /\ pidx <= Len(providers)
    /\ \E probe \in ProbeAnswers, answer \in GenerateAnswers :
         /\ is_available(providers[pidx], probe)
         /\ analyze(providers[pidx], context, answer).raised
         /\ consulted' = Append(consulted,
                [provider |-> providers[pidx], outcome |-> "raised",
                 detail |-> analyze(providers[pidx], context, answer).error])
    /\ pidx' = pidx + 1
    /\ AfterProvider(pidx)
    /\ UNCHANGED <<commit_diff, git_status, generated, timeline,
                   prompts, calls, workflow, repo, yes, no_ai, context, branch_info, providers,
                   response, producer, cidx, executed, action, need_stash,
                   pushed>>

\* one iteration: is_available() is true and analyze() returns
ProviderReturns ==
    /\ workflow = "push"
    /\ pc = "analyze"
    /\ pidx <= Len(providers)
    /\ \E probe \in ProbeAnswers, answer \in GenerateAnswers :
         /\ is_available(providers[pidx], probe)
         /\ ~analyze(providers[pidx], context, answer).raised
         /\ response' = analyze(providers[pidx], context, answer).value
         /\ consulted' = Append(consulted,
                [provider |-> providers[pidx], outcome |-> "returned",
                 detail |-> analyze(providers[pidx], context, answer).value])
    /\ producer' = providers[pidx]
    /\ pc' = "review"
    /\ UNCHANGED <<commit_diff, git_status, generated, timeline,
                   prompts, calls, workflow, repo, yes, no_ai, context, branch_info, providers,
                   pidx, cidx, executed, action, need_stash, pushed, printed>>

ManualReview_CommandsOnly(resp) == resp.commands = << >>

\* push.py 83: response.requires_manual_review or not response.commands
ManualReview(resp) == resp.requires_manual_review \/ resp.commands = << >>

\* push.py 82-93: handle manual review
PushReview ==
    /\ workflow = "push"
    /\ pc = "review"
    /\ IF ManualReview(response)
       THEN /\ Report("WARNING: Manual review required")
            /\ pc' = "done"
       ELSE /\ pc' = "confirm"
            /\ UNCHANGED printed
    /\ UNCHANGED <<commit_diff, git_status, generated, timeline,
                   prompts, calls, workflow, repo, yes, no_ai, context, branch_info, providers,
                   pidx, consulted, response, producer, cidx, executed,
                   action, need_stash, pushed>>

\* answers of inquirer.prompt for a Confirm question: None (no answer), or
\* the boolean
ConfirmAnswers == {"None", "yes", "no"}

\* an entry of the log of prompts: the question and its answer
Prompt(question, answer) == [question |-> question, answer |-> answer]

PushConfirm_NoneProceeds ==
    /\ workflow = "push"
    /\ pc = "confirm"
    /\ IF yes
       THEN /\ pc' = "exec"
            /\ cidx' = 1
            /\ UNCHANGED <<commit_diff, git_status, generated, timeline,
                   printed, prompts>>
       ELSE \E answer \in ConfirmAnswers :
            /\ prompts' = Append(prompts, Prompt("execute", answer))
            /\ IF answer = "no"
               THEN /\ Report("Operation cancelled")
                    /\ pc' = "done"
                    /\ UNCHANGED cidx
               ELSE /\ pc' = "exec"
                    /\ cidx' = 1
                    /\ UNCHANGED printed
    /\ UNCHANGED <<commit_diff, git_status, generated, timeline,
                   calls, workflow, repo, yes, no_ai, context, branch_info,
                   providers, pidx, consulted, response, producer, executed,
                   action, need_stash, pushed>>

\* push.py 106-118: get confirmation
PushConfirm ==
    /\ workflow = "push"
    /\ pc = "confirm"
    /\ IF yes
       THEN /\ pc' = "exec"
            /\ cidx' = 1
            /\ UNCHANGED <<commit_diff, git_status, generated, timeline,
                   printed, prompts>>
       ELSE \E answer \in ConfirmAnswers :
            /\ prompts' = Append(prompts, Prompt("execute", answer))
            /\ IF answer # "yes"
               THEN /\ Report("Operation cancelled")
                    /\ pc' = "done"
                    /\ UNCHANGED cidx
               ELSE /\ pc' = "exec"
                    /\ cidx' = 1
                    /\ UNCHANGED printed
    /\ UNCHANGED <<commit_diff, git_status, generated, timeline,
                   calls, workflow, repo, yes, no_ai, context, branch_info,
                   providers, pidx, consulted, response, producer, executed,
                   action, need_stash, pushed>>

\* an entry of the log of execute_command calls: the command of the plan
\* (or of the workflow) it was made for, the string handed to
\* execute_command, the tokens given to the VCS, what became of the VCS
\* operation, whether the call raised, and the returned boolean
Call(cmd, arg, res) ==
    [cmd |-> cmd, arg |-> arg, invoked |-> res.invoked, vcs |-> res.vcs,
     raised |-> res.raised, ok |-> res.ret]

PushExec_ContinueOnFailure ==
    /\ workflow = "push"
    /\ pc = "exec"
    /\ cidx <= Len(response.commands)
    /\ \E vcs_ok \in BOOLEAN :
         LET cmd == response.commands[cidx]
             arg == "git " \o Replace(cmd, "git ", "")
             res == execute_command(repo, arg, vcs_ok)
         IN /\ executed' = Append(executed, Call(cmd, arg, res))
            /\ Report(IF res.ret THEN "[OK] " \o cmd ELSE "[FAIL] " \o cmd \o " failed")
            /\ cidx' = cidx + 1
            /\ pc' = "exec"
    /\ UNCHANGED <<commit_diff, git_status, generated, timeline,
                   prompts, calls, workflow, repo, yes, no_ai, context, branch_info, providers,
                   pidx, consulted, response, producer, action, need_stash,
                   pushed>>

\* push.py 123-132: one iteration of the loop over response.commands
PushExec ==
    /\ workflow = "push"
    /\ pc = "exec"
    /\ cidx <= Len(response.commands)
    /\ \E vcs_ok \in BOOLEAN :
         LET cmd == response.commands[cidx]
             arg == "git " \o Replace(cmd, "git ", "")
             res == execute_command(repo, arg, vcs_ok)
         IN /\ executed' = Append(executed, Call(cmd, arg, res))
            /\ IF res.ret
               THEN /\ Report("[OK] " \o cmd)
                    /\ cidx' = cidx + 1
                    /\ pc' = "exec"
               ELSE /\ Report("[FAIL] " \o cmd \o " failed")
                    /\ pc' = "aborted"
                    /\ UNCHANGED cidx
    /\ UNCHANGED <<commit_diff, git_status, generated, timeline,
                   prompts, calls, workflow, repo, yes, no_ai, context, branch_info, providers,
                   pidx, consulted, response, producer, action, need_stash,
                   pushed>>

\* push.py 134: the loop ended without a failure
PushSuccess ==
    /\ workflow = "push"
    /\ pc = "exec"
    /\ cidx > Len(response.commands)
    /\ Report("Success! All commands executed.")
    /\ pc' = "done"
    /\ UNCHANGED <<commit_diff, git_status, generated, timeline,
                   prompts, calls, workflow, repo, yes, no_ai, context, branch_info, providers,
                   pidx, consulted, response, producer, cidx, executed,
                   action, need_stash, pushed>>

\* resolve.py 50-60: check if divergent
ResolveDivergence ==
    /\ workflow = "resolve"
    /\ pc = "divergence"
    /\ IF ~branch_info.is_divergent
       THEN /\ Report("OK: Your branch is not divergent!")
            /\ pc' = "done"
       ELSE /\ pc' = "choose"
            /\ UNCHANGED printed
    /\ UNCHANGED <<commit_diff, git_status, generated, timeline,
                   prompts, calls, workflow, repo, yes, no_ai, context, branch_info, providers,
                   pidx, consulted, response, producer, cidx, executed,
                   action, need_stash, pushed>>

\* answers of inquirer.prompt for the List question: None, or the choice
ActionAnswers == {"None", "rebase", "merge", "cancel"}

\* resolve.py 127-146: interactive choice, then need_stash
ResolveChoose ==
    /\ workflow = "resolve"
    /\ pc = "choose"
    /\ \E answer \in ActionAnswers :
      /\ prompts' = Append(prompts, Prompt("action", answer))
      /\ IF answer = "None" \/ answer = "cancel"
         THEN /\ Report("Cancelled. No changes made.")
              /\ pc' = "done"
              /\ UNCHANGED <<commit_diff, git_status, generated, timeline,
                   action, need_stash>>
         ELSE /\ action' = answer
              /\ need_stash' = (context.uncommitted_changes > 0)
              /\ pc' = IF need_stash' THEN "confirm_stash" ELSE "pull"
              /\ UNCHANGED printed
    /\ UNCHANGED <<commit_diff, git_status, generated, timeline,
                   calls, workflow, repo, yes, no_ai, context, branch_info, providers,
                   pidx, consulted, response, producer, cidx, executed, pushed>>

\* resolve.py 147-156: confirm the stash; prompt(...)['continue'] on a prompt
\* that returned None raises TypeError outside of the try block
ResolveConfirmStash ==
    /\ workflow = "resolve"
    /\ pc = "confirm_stash"
    /\ \E answer \in ConfirmAnswers :
      /\ prompts' = Append(prompts, Prompt("continue", answer))
      /\ IF answer = "None"
         THEN /\ pc' = "crashed"
              /\ UNCHANGED printed
         ELSE IF answer = "no"
         THEN /\ Report("Cancelled.")
              /\ pc' = "done"
         ELSE /\ pc' = "stash"
              /\ UNCHANGED printed
    /\ UNCHANGED <<commit_diff, git_status, generated, timeline,
                   calls, workflow, repo, yes, no_ai, context, branch_info, providers,
                   pidx, consulted, response, producer, cidx, executed,
                   action, need_stash, pushed>>

\* resolve.py 162-165: stash; the returned boolean is dropped
ResolveStash ==
    /\ workflow = "resolve"
    /\ pc = "stash"
    /\ \E vcs_ok \in BOOLEAN :
         executed' = Append(executed,
             Call("git stash", "git stash", execute_command(repo, "git stash", vcs_ok)))
    /\ Report("[OK] Changes stashed")
    /\ pc' = "pull"
    /\ UNCHANGED <<commit_diff, git_status, generated, timeline,
                   prompts, calls, workflow, repo, yes, no_ai, context, branch_info, providers,
                   pidx, consulted, response, producer, cidx, action,
                   need_stash, pushed>>

ResolvePull_IgnoreFailure ==
    /\ workflow = "resolve"
    /\ pc = "pull"
    /\ \E vcs_ok \in BOOLEAN :
         LET cmd == IF action = "rebase" THEN "git pull --rebase" ELSE "git pull"
             res == execute_command(repo, cmd, vcs_ok)
         IN /\ executed' = Append(executed, Call(cmd, cmd, res))
            /\ IF ~res.ret
               THEN /\ Report("[FAIL] Pull failed")
                    /\ pc' = IF need_stash THEN "pop" ELSE "complete"
               ELSE /\ Report("[OK] Pull successful")
                    /\ pc' = IF need_stash THEN "pop" ELSE "complete"
    /\ UNCHANGED <<commit_diff, git_status, generated, timeline,
                   prompts, calls, workflow, repo, yes, no_ai, context, branch_info, providers,
                   pidx, consulted, response, producer, cidx, action,
                   need_stash, pushed>>

\* resolve.py 167-181: pull with rebase or merge
ResolvePull ==
    /\ workflow = "resolve"
    /\ pc = "pull"
    /\ \E vcs_ok \in BOOLEAN :
         LET cmd == IF action = "rebase" THEN "git pull --rebase" ELSE "git pull"
             res == execute_command(repo, cmd, vcs_ok)
         IN /\ executed' = Append(executed, Call(cmd, cmd, res))
            /\ IF ~res.ret
               THEN /\ Report("[FAIL] Pull failed")
                    /\ pc' = "aborted"
               ELSE /\ Report("[OK] Pull successful")
                    /\ pc' = IF need_stash THEN "pop" ELSE "complete"
    /\ UNCHANGED <<commit_diff, git_status, generated, timeline,
                   prompts, calls, workflow, repo, yes, no_ai, context, branch_info, providers,
                   pidx, consulted, response, producer, cidx, action,
                   need_stash, pushed>>

\* resolve.py 183-186: stash pop; the returned boolean is dropped
ResolveStashPop ==
    /\ workflow = "resolve"
    /\ pc = "pop"
    /\ \E vcs_ok \in BOOLEAN :
         executed' = Append(executed,
             Call("git stash pop", "git stash pop",
                  execute_command(repo, "git stash pop", vcs_ok)))
    /\ Report("[OK] Changes restored")
    /\ pc' = "complete"
    /\ UNCHANGED <<commit_diff, git_status, generated, timeline,
                   prompts, calls, workflow, repo, yes, no_ai, context, branch_info, providers,
                   pidx, consulted, response, producer, cidx, action,
                   need_stash, pushed>>

\* resolve.py 188-189
ResolveComplete ==
    /\ workflow = "resolve"
    /\ pc = "complete"
    /\ Report("Resolution complete!")
    /\ pc' = "ask_push"
    /\ UNCHANGED <<commit_diff, git_status, generated, timeline,
                   prompts, calls, workflow, repo, yes, no_ai, context, branch_info, providers,
                   pidx, consulted, response, producer, cidx, executed,
                   action, need_stash, pushed>>

\* resolve.py 191-204: ask about pushing; the returned boolean of the push is
\* dropped; prompt(...)['push'] on None raises TypeError, caught at 202
ResolvePush ==
    /\ workflow = "resolve"
    /\ pc = "ask_push"
    /\ \E answer \in ConfirmAnswers, vcs_ok \in BOOLEAN :
      /\ prompts' = Append(prompts, Prompt("push", answer))
      /\ IF answer = "None"
         THEN /\ Report("Error: 'NoneType' object is not subscriptable")
              /\ pc' = "aborted"
              /\ UNCHANGED <<commit_diff, git_status, generated, timeline,
                   executed, pushed>>
         ELSE IF answer = "yes"
         THEN /\ executed' = Append(executed,
                    Call("git push", "git push",
                         execute_command(repo, "git push", vcs_ok)))
              /\ pushed' = TRUE
              /\ Report("[OK] Pushed successfully!")
              /\ pc' = "done"
         ELSE /\ pc' = "done"
              /\ UNCHANGED <<commit_diff, git_status, generated, timeline,
                   executed, pushed, printed>>
    /\ UNCHANGED <<commit_diff, git_status, generated, timeline,
                   calls, workflow, repo, yes, no_ai, context, branch_info, providers,
                   pidx, consulted, response, producer, cidx, action,
                   need_stash>>

Next ==
    \/ CheckRepository
    \/ AnalyzeRepository
    \/ CreateAIService
    \/ ProviderUnavailable
    \/ ProviderRaises
    \/ ProviderReturns
    \/ PushReview
    \/ PushConfirm
    \/ PushExec
    \/ PushSuccess
    \/ ResolveDivergence
    \/ ResolveChoose
    \/ ResolveConfirmStash
    \/ ResolveStash
    \/ ResolvePull
    \/ ResolveStashPop
    \/ ResolveComplete
    \/ ResolvePush

Spec == Init /\ [][Next]_vars

(***************************************************************************)
(* Rule-table specification: the rule-based provider applied to every      *)
(* context that build_context can return.                                  *)
(***************************************************************************)
Idle ==
    /\ yes = FALSE
    /\ no_ai = FALSE
    /\ branch_info = None
    /\ providers = << >>
    /\ pidx = 0
    /\ consulted = << >>
    /\ cidx = 0
    /\ executed = << >>
    /\ action = NoneStr
    /\ need_stash = FALSE
    /\ pushed = FALSE
    /\ printed = << >>
    /\ prompts = << >>
    /\ calls = << >>
    /\ commit_diff = << >>
    /\ git_status = None
    /\ generated = << >>
    /\ timeline = << >>

HInit ==
    /\ workflow = "heuristic"
    /\ pc = "start"
    /\ repo \in ReposUpTo(HMaxCommits)
    /\ context = None
    /\ response = None
    /\ producer = NoneStr
    /\ Idle

HBuild ==
    /\ workflow = "heuristic"
    /\ pc = "start"
    /\ \E net_ok \in BOOLEAN :
         LET built == build_context(repo, net_ok) IN
         /\ calls' = calls \o built.calls
         /\ IF built.raised
            THEN /\ pc' = "crashed"
                 /\ UNCHANGED context
            ELSE /\ context' = built.value
                 /\ pc' = IF built.value = None THEN "failed" ELSE "built"
    /\ UNCHANGED <<commit_diff, git_status, generated, timeline,
                   prompts, workflow, repo, yes, no_ai, branch_info, providers,
                   pidx, consulted, response, producer, cidx, executed, action,
                   need_stash, pushed, printed>>

HAnalyze ==
    /\ workflow = "heuristic"
    /\ pc = "built"
    /\ HeuristicIsAvailable
    /\ response' = HeuristicAnalyze(context)
    /\ producer' = "HeuristicProvider"
    /\ pc' = "recommended"
    /\ UNCHANGED <<commit_diff, git_status, generated, timeline,
                   prompts, calls, workflow, repo, yes, no_ai, context, branch_info, providers,
                   pidx, consulted, cidx, executed, action, need_stash,
                   pushed, printed>>

HNext == HBuild \/ HAnalyze

SpecHeur == HInit /\ [][HNext]_vars

(***************************************************************************)
(* Command-execution specification: one GitService receiving a bounded     *)
(* number of execute_command calls with arbitrary command strings.         *)
(***************************************************************************)
MaxCalls == 2

CommandStrings ==
    { "", "  ", "git", " git ", "git git", "push", "git push", "gitpush",
      "  git   pull  --rebase ", "git stash pop", "git frobnicate" }

\* a GitService without a repository, and one with a repository
ExecRepos ==
    { RepoRec(FALSE, "none", FALSE, FALSE, "none", 0, 0, 0, 0, 0),
      RepoRec(TRUE, "origin", FALSE, FALSE, "none", 0, 0, 0, 0, 0) }

EInit ==
    /\ workflow = "execute"
    /\ pc = "ready"
    /\ repo \in ExecRepos
    /\ context = None
    /\ response = None
    /\ producer = NoneStr
    /\ Idle

ECall ==
    /\ workflow = "execute"
    /\ pc = "ready"
    /\ Len(executed) < MaxCalls
    /\ \E command \in CommandStrings, vcs_ok \in BOOLEAN :
         LET res == execute_command(repo, command, vcs_ok) IN
         /\ executed' = Append(executed, Call(command, command, res))
         /\ pc' = IF res.raised THEN "crashed" ELSE "ready"
    /\ UNCHANGED <<commit_diff, git_status, generated, timeline,
                   prompts, calls, workflow, repo, yes, no_ai, context,
                   branch_info, providers, pidx, consulted, response, producer,
                   cidx, action, need_stash, pushed, printed>>

ENext == ECall

SpecExec == EInit /\ [][ENext]_vars

(***************************************************************************)
(* Reply-parsing specification: OllamaProvider.analyze applied to every    *)
(* answer of the model service, the replies ranging over all subsets of    *)
(* the six fields of the format.                                           *)
(***************************************************************************)
OptionalFields == {"risks", "requires_manual_review", "confidence"}

Restrict(obj, keys) == [k \in keys |-> obj[k]]

\* the `response` text: not JSON, or a JSON object with some of the fields
ParseTexts ==
    { [json |-> FALSE] }
    \cup { [json |-> TRUE, obj |-> Restrict(o, keys)] :
             o \in {ReplyReview, ReplyNoCommands},
             keys \in SUBSET (RequiredFields \cup OptionalFields) }

ParseAnswers ==
    { [kind |-> "error"], [kind |-> "status"], [kind |-> "body_not_json"] }
    \cup { [kind |-> "ok", text |-> t] : t \in ParseTexts }

\* repositories with an origin remote and a clean working tree
ParseRepos ==
    { r \in ReposUpTo(MaxCommits) :
        /\ r.remotes = "origin"
        /\ r.fail = "none"
        /\ r.modified = 0 /\ r.untracked = 0 /\ r.staged = 0 }

PInit ==
    /\ workflow = "ollama"
    /\ pc = "start"
    /\ repo \in ParseRepos
    /\ context = None
    /\ response = None
    /\ producer = NoneStr
    /\ Idle

PBuild ==
    /\ workflow = "ollama"
    /\ pc = "start"
    /\ \E net_ok \in BOOLEAN :
         LET built == build_context(repo, net_ok) IN
         /\ ~built.raised
         /\ built.value # None
         /\ calls' = calls \o built.calls
         /\ context' = built.value
    /\ pc' = "built"
    /\ UNCHANGED <<commit_diff, git_status, generated, timeline,
                   prompts, workflow, repo, yes, no_ai, branch_info, providers,
                   pidx, consulted, response, producer, cidx, executed, action,
                   need_stash, pushed, printed>>

PAnalyze ==
    /\ workflow = "ollama"
    /\ pc = "built"
    /\ \E answer \in ParseAnswers :
         LET out == OllamaAnalyze(context, answer) IN
         /\ consulted' = Append(consulted,
                [provider |-> "OllamaProvider",
                 outcome |-> IF out.raised THEN "raised" ELSE "returned",
                 detail |-> IF out.raised THEN out.error ELSE out.value,
                 answer |-> answer])
         /\ IF out.raised
            THEN /\ pc' = "raised"
                 /\ UNCHANGED <<commit_diff, git_status, generated, timeline,
                   response, producer>>
            ELSE /\ pc' = "returned"
                 /\ response' = out.value
                 /\ producer' = "OllamaProvider"
    /\ UNCHANGED <<commit_diff, git_status, generated, timeline,
                   prompts, calls, workflow, repo, yes, no_ai, context,
                   branch_info, providers, pidx, cidx, executed, action,
                   need_stash, pushed, printed>>

PNext == PBuild \/ PAnalyze

SpecParse == PInit /\ [][PNext]_vars

(***************************************************************************)
(* Concurrent-change specification: the reads that push makes of the       *)
(* repository (push.py 32-49, with build_context step by step) while       *)
(* another process works on the same repository.                           *)
(***************************************************************************)
\* number of changes the other process makes during one run
MaxChanges == 2

\* repositories on a tracked branch with a remote named origin
RaceRepos ==
    { r \in ReposUpTo(MaxCommits) :
        /\ r.tracking
        /\ r.remotes = "origin"
        /\ r.fail = "none"
        /\ r.untracked = 0 /\ r.staged = 0 }

\* what the other process runs: a commit of the modified files, an edit of
\* a file, a fetch that finds a new remote commit, a pull
OtherOps == {"commit", "edit", "fetch", "pull"}

Other(op, r) ==
    CASE op = "commit" ->
           IF r.modified > 0 /\ r.ahead < MaxCommits
           THEN [r EXCEPT !.modified = 0, !.ahead = r.ahead + 1] ELSE r
      [] op = "edit" ->
           IF r.modified < MaxFiles
           THEN [r EXCEPT !.modified = r.modified + 1] ELSE r
      [] op = "fetch" ->
           IF r.behind < MaxCommits
           THEN [r EXCEPT !.behind = r.behind + 1] ELSE r
      [] op = "pull" -> [r EXCEPT !.behind = 0]

RInit ==
    /\ workflow = "race"
    /\ pc = "start"
    /\ repo \in RaceRepos
    /\ timeline = << repo >>
    /\ context = None
    /\ branch_info = None
    /\ response = None
    /\ producer = NoneStr
    /\ yes = FALSE
    /\ no_ai = FALSE
    /\ providers = << >>
    /\ pidx = 0
    /\ consulted = << >>
    /\ cidx = 0
    /\ executed = << >>
    /\ action = NoneStr
    /\ need_stash = FALSE
    /\ pushed = FALSE
    /\ printed = << >>
    /\ prompts = << >>
    /\ calls = << >>
    /\ commit_diff = << >>
    /\ git_status = None
    /\ generated = << >>

\* the other process changes the repository
ROther ==
    /\ workflow = "race"
    /\ pc \in {"start", "fetch", "status", "branch_info", "push_branch_info"}
    /\ Len(timeline) <= MaxChanges
    /\ \E op \in OtherOps :
         /\ Other(op, repo) # repo
         /\ repo' = Other(op, repo)
    /\ timeline' = Append(timeline, repo')
    /\ UNCHANGED <<workflow, pc, yes, no_ai, context, branch_info, providers,
                   pidx, consulted, response, producer, cidx, executed,
                   action, need_stash, pushed, printed, prompts, calls,
                   commit_diff, git_status, generated>>

\* the reads of the running push, one at a time
\* push.py 32 / context_builder.py 22: is_git_repository()
RCheckRepository ==
    /\ workflow = "race"
    /\ pc = "start"
    /\ calls' = Append(calls, RepositoryCall(repo))
    /\ pc' = IF is_git_repository(repo) THEN "fetch" ELSE "aborted"
    /\ UNCHANGED <<workflow, repo, timeline, yes, no_ai, context, branch_info,
                   providers, pidx, consulted, response, producer, cidx,
                   executed, action, need_stash, pushed, printed, prompts,
                   commit_diff, git_status, generated>>

\* context_builder.py 26: fetch(), its result ignored
RFetch ==
    /\ workflow = "race"
    /\ pc = "fetch"
    /\ \E net_ok \in BOOLEAN :
         /\ calls' = Append(calls, FetchCall(repo, net_ok))
         /\ pc' = IF fetch(repo, net_ok).raised THEN "crashed" ELSE "status"
    /\ UNCHANGED <<workflow, repo, timeline, yes, no_ai, context, branch_info,
                   providers, pidx, consulted, response, producer, cidx,
                   executed, action, need_stash, pushed, printed, prompts,
                   commit_diff, git_status, generated>>

\* context_builder.py 29: status = self.git.get_status()
RStatus ==
    /\ workflow = "race"
    /\ pc = "status"
    /\ git_status' = get_status(repo)
    /\ calls' = Append(calls, StatusCall(repo))
    /\ pc' = "branch_info"
    /\ UNCHANGED <<workflow, repo, timeline, yes, no_ai, context, branch_info,
                   providers, pidx, consulted, response, producer, cidx,
                   executed, action, need_stash, pushed, printed, prompts,
                   commit_diff, generated>>

\* context_builder.py 30-45: branch_info = self.git.get_branch_info(), which
\* reads the status again, and the context made of both
RBranchInfo ==
    /\ workflow = "race"
    /\ pc = "branch_info"
    /\ LET info == get_branch_info(repo) IN
       context' = IF git_status = None \/ info = None THEN None
                  ELSE GitContext(git_status, info)
    /\ calls' = calls \o BranchInfoCalls(repo)
    /\ pc' = "push_branch_info"
    /\ UNCHANGED <<workflow, repo, timeline, yes, no_ai, branch_info,
                   providers, pidx, consulted, response, producer, cidx,
                   executed, action, need_stash, pushed, printed, prompts,
                   commit_diff, git_status, generated>>

\* push.py 45: branch_info = git.get_branch_info()
RPushBranchInfo ==
    /\ workflow = "race"
    /\ pc = "push_branch_info"
    /\ branch_info' = get_branch_info(repo)
    /\ calls' = calls \o BranchInfoCalls(repo)
    /\ pc' = IF context = None \/ branch_info' = None THEN "aborted" ELSE "ai"
    /\ UNCHANGED <<workflow, repo, timeline, yes, no_ai, context, providers,
                   pidx, consulted, response, producer, cidx, executed,
                   action, need_stash, pushed, printed, prompts,
                   commit_diff, git_status, generated>>

RNext ==
    \/ ROther
    \/ RCheckRepository
    \/ RFetch
    \/ RStatus
    \/ RBranchInfo
    \/ RPushBranchInfo

SpecRace == RInit /\ [][RNext]_vars

\* ---------------------------------------------------------------------
\* The commit message generator, called on a diff and a status
\* ---------------------------------------------------------------------

\* the number of sections a diff is made of
MaxDiffParts == 2

\* sections of the output of `git diff` and `git status`
DiffParts ==
    { << "+def my_feature(x):" >>,
      << "Untracked files:", "  notes.txt" >>,
      << "diff --git a/src/app.py b/src/app.py" >>,
      << "-    return 1" >>,
      << "+    fix the bug" >>,
      << "diff --git a/README.md b/README.md" >>,
      << "+# refactor parser" >> }

RECURSIVE DiffsOf(_)
DiffsOf(n) ==
    IF n = 0 THEN { << >> }
    ELSE DiffsOf(n - 1) \cup
         { d \o part : d \in DiffsOf(n - 1), part \in DiffParts }

\* a diff over n files, one header line each
LargeDiff(n) ==
    [i \in 1..n |-> "diff --git a/f" \o ToString(i) \o ".py b/f"
                    \o ToString(i) \o ".py"]

CommitDiffs ==
    (DiffsOf(MaxDiffParts) \ { << >> })
    \cup { EmptyText, LargeDiff(LargeChangeset), LargeDiff(LargeChangeset + 1) }

\* GitStatus of a repository with work in progress on main
CommitStatuses ==
    { [current    |-> "main",
       tracking   |-> NoneStr,
       ahead      |-> 0,
       behind     |-> 0,
       modified   |-> modified,
       created    |-> created,
       deleted    |-> 0,
       conflicted |-> << >>,
       is_clean   |-> (modified = 0 /\ created = 0)] :
      modified \in 0..MaxFiles, created \in 0..MaxFiles }

CInit ==
    /\ workflow = "commit"
    /\ pc = "start"
    /\ commit_diff \in CommitDiffs
    /\ git_status \in CommitStatuses
    /\ generated = << >>
    /\ repo \in { r \in ReposUpTo(0) : r.valid /\ ~r.detached /\ ~r.tracking
                                      /\ r.remotes = "none" /\ r.fail = "none"
                                      /\ r.modified = 0 /\ r.untracked = 0
                                      /\ r.staged = 0 }
    /\ timeline = << >>
    /\ context = None
    /\ branch_info = None
    /\ response = None
    /\ producer = NoneStr
    /\ yes = FALSE
    /\ no_ai = FALSE
    /\ providers = << >>
    /\ pidx = 0
    /\ consulted = << >>
    /\ cidx = 0
    /\ executed = << >>
    /\ action = NoneStr
    /\ need_stash = FALSE
    /\ pushed = FALSE
    /\ printed = << >>
    /\ prompts = << >>
    /\ calls = << >>

\* the record of one call of generate: what the model service answered and
\* what the call returned
Run(probe, answer, result) ==
    [probe  |-> probe,
     answer |-> answer,
     raised |-> result.raised,
     value  |-> result.value,
     paths  |-> result.paths]

\* the generation request of a run whose probe failed: none is sent
NotAsked == [kind |-> "not_asked"]

\* generate(diff, status): the probe is answered by the model service, and
\* so is the generation request when the probe lets one be sent
CGenerate ==
    /\ workflow = "commit"
    /\ pc = "start"
    /\ \E probe \in ProbeAnswers :
       \E answer \in IF OllamaIsAvailable(probe) THEN CommitAnswers
                     ELSE { NotAsked } :
         generated' = Append(generated,
                             Run(probe, answer,
                                 generate(commit_diff, git_status, probe, answer)))
    /\ pc' = "done"
    /\ UNCHANGED <<commit_diff, git_status, timeline, workflow, repo, yes,
                   no_ai, context, branch_info, providers, pidx, consulted,
                   response, producer, cidx, executed, action, need_stash,
                   pushed, printed, prompts, calls>>

CNext == CGenerate

SpecCommit == CInit /\ [][CNext]_vars

(***************************************************************************)
(* The rule table of the rule-based provider, as the specification gives   *)
(* it: rule number, then <<strategy, requires_manual_review, confidence>>. *)
(***************************************************************************)
RuleMatches(i, ctx) ==
    CASE i = 1 -> ctx.commits_ahead > 0 /\ ctx.commits_behind = 0 /\ ctx.uncommitted_changes = 0
      [] i = 2 -> ctx.commits_behind > 0 /\ ~ctx.is_divergent /\ ctx.uncommitted_changes = 0
      [] i = 3 -> ctx.commits_behind > 0 /\ ctx.uncommitted_changes > 0
      [] i = 4 -> ctx.is_divergent
      [] i = 5 -> ctx.commits_ahead = 0 /\ ctx.uncommitted_changes = 0
      [] i = 6 -> ctx.commits_ahead = 0 /\ ctx.uncommitted_changes > 0
      [] i = 7 -> TRUE

FirstRule(ctx) ==
    CHOOSE i \in 1..7 : RuleMatches(i, ctx) /\ \A j \in 1..(i - 1) : ~RuleMatches(j, ctx)

RuleOutcome(i) ==
    CASE i = 1 -> << "push", FALSE, 95 >>
      [] i = 2 -> << "pull-then-push", FALSE, 85 >>
      [] i = 3 -> << "stash-pull-push", FALSE, 75 >>
      [] i = 4 -> << "manual", TRUE, 50 >>
      [] i = 5 -> << "manual", FALSE, 100 >>
      [] i = 6 -> << "manual", TRUE, 100 >>
      [] i = 7 -> << "manual", TRUE, 30 >>

HeuristicDone == workflow = "heuristic" /\ pc = "recommended"

\* C1: for every context, HeuristicProvider.analyze returns the strategy,
\* requires_manual_review and confidence of the first matching rule of the
\* table, rules taken in the order 1..7.
C1_RuleTable ==
    HeuristicDone =>
        << response.strategy, response.requires_manual_review, response.confidence >>
            = RuleOutcome(FirstRule(context))

\* C1 witness: the rule-based provider decided a context with uncommitted
\* changes and nothing to push (rule 6).
C1_Witness ==
    /\ HeuristicDone
    /\ FirstRule(context) = 6
    /\ response.confidence = 100

\* C2 as claimed: for every divergent context, whatever its uncommitted
\* changes, HeuristicProvider.analyze returns strategy manual, an empty command
\* list and requires_manual_review, never an executable plan.
C2_DivergentNeverExecutable ==
    (HeuristicDone /\ context.is_divergent) =>
        /\ response.strategy = "manual"
        /\ response.commands = << >>
        /\ response.requires_manual_review

\* C3 as claimed: ahead=2, behind=4, uncommitted=0 yields pull-then-push with
\* the commands pull --rebase, push and confidence 85.
C3_Original ==
    (/\ HeuristicDone
     /\ context.commits_ahead = 2
     /\ context.commits_behind = 4
     /\ context.uncommitted_changes = 0) =>
        /\ response.strategy = "pull-then-push"
        /\ response.commands = << "pull --rebase", "push" >>
        /\ response.confidence = 85

\* C3 amended: the context that build_context returns for ahead=2, behind=4,
\* uncommitted=0 is divergent, and the rule-based provider returns strategy
\* manual with no commands, requires_manual_review and confidence 50.
C3_DivergentManual ==
    (/\ HeuristicDone
     /\ context.commits_ahead = 2
     /\ context.commits_behind = 4
     /\ context.uncommitted_changes = 0) =>
        /\ context.is_divergent
        /\ response.strategy = "manual"
        /\ response.commands = << >>
        /\ response.requires_manual_review
        /\ response.confidence = 50

\* C3 witness: the provider was applied to ahead=2, behind=4, uncommitted=0.
C3_Witness ==
    /\ HeuristicDone
    /\ context.commits_ahead = 2
    /\ context.commits_behind = 4
    /\ context.uncommitted_changes = 0
    /\ producer = "HeuristicProvider"

\* C4 as claimed: for ahead>0, behind=0, uncommitted=0 the output is strategy
\* push, the command list ["push"], confidence 95 and no risks.
C4_Original ==
    (HeuristicDone /\ context.commits_ahead > 0 /\ context.commits_behind = 0
        /\ context.uncommitted_changes = 0) =>
        /\ response.strategy = "push"
        /\ response.commands = << "push" >>
        /\ response.confidence = 95
        /\ response.risks = << >>

\* C4 amended: for ahead>0, behind=0, uncommitted=0 the output is strategy
\* push, the single command "git push", confidence 95 and no risks.
C4_CleanPush ==
    (HeuristicDone /\ context.commits_ahead > 0 /\ context.commits_behind = 0
        /\ context.uncommitted_changes = 0) =>
        /\ response.strategy = "push"
        /\ response.commands = << "git push" >>
        /\ response.confidence = 95
        /\ response.risks = << >>

\* C4 witness: the provider was applied to ahead=3, behind=0, uncommitted=0.
C4_Witness ==
    /\ HeuristicDone
    /\ context.commits_ahead = 3
    /\ context.commits_behind = 0
    /\ context.uncommitted_changes = 0
    /\ Len(response.commands) = 1

\* C5: for every context with ahead>0, behind>0 and uncommitted=0 the provider
\* returns strategy manual, no commands, requires_manual_review and
\* confidence 50.
C5_DivergentClean ==
    (HeuristicDone /\ context.commits_ahead > 0 /\ context.commits_behind > 0
        /\ context.uncommitted_changes = 0) =>
        /\ response.strategy = "manual"
        /\ response.commands = << >>
        /\ response.requires_manual_review = TRUE
        /\ response.confidence = 50

\* C5 witness: the provider was applied to ahead=1, behind=1, uncommitted=0.
C5_Witness ==
    /\ HeuristicDone
    /\ context.commits_ahead = 1
    /\ context.commits_behind = 1
    /\ context.uncommitted_changes = 0
    /\ response.strategy = "manual"

(***************************************************************************)
(* Claims about the orchestrator and the workflows, under Spec.            *)
(***************************************************************************)
Last(q) == q[Len(q)]

Reported(msg) == \E i \in 1..Len(printed) : printed[i] = msg

\* the model-backed provider was consulted and did not produce a result
OllamaFellThrough ==
    \E i \in 1..Len(consulted) :
        /\ consulted[i].provider = "OllamaProvider"
        /\ consulted[i].outcome \in {"unavailable", "raised"}

\* C6: AIService.analyze is total: whatever the model-backed provider does, a
\* provider is always left to consult, the terminal "No AI provider available"
\* failure never occurs, and once the model-backed provider was unavailable or
\* failed the Recommendation returned is the rule-based provider's.
C6_AnalyzeTotal ==
    workflow = "push" =>
        /\ ~Reported("AI analysis failed: No AI provider available")
        /\ (pc = "analyze" => pidx <= Len(providers))
        /\ (pc \in {"review", "confirm", "exec", "done"} /\ providers # << >>
                => response # None)
        /\ (OllamaFellThrough /\ pc # "analyze" =>
                /\ producer = "HeuristicProvider"
                /\ response = HeuristicAnalyze(context))

\* C6 witness: the model-backed provider was available, its analyze raised on
\* a reply with missing fields, and the rule-based provider's result was
\* returned.
C6_Witness ==
    /\ workflow = "push"
    /\ pc = "review"
    /\ Len(consulted) = 2
    /\ consulted[1].provider = "OllamaProvider"
    /\ consulted[1].outcome = "raised"
    /\ consulted[1].detail
         = "Ollama analysis failed: Failed to parse AI response: Missing required fields"
    /\ producer = "HeuristicProvider"
    /\ response # None

\* C7: the rule-based provider is the last provider and the model-backed one,
\* when enabled, precedes it; providers are consulted strictly in list order,
\* a later one only after every earlier one was unavailable or failed, and the
\* result held is the one returned by the provider consulted last (so the
\* model-backed provider's, when it is available and its analyze succeeds).
C7_ProviderOrder ==
    (workflow = "push" /\ providers # << >>) =>
        /\ providers[Len(providers)] = "HeuristicProvider"
        /\ providers = IF no_ai THEN << "HeuristicProvider" >>
                       ELSE << "OllamaProvider", "HeuristicProvider" >>
        /\ Len(consulted) <= Len(providers)
        /\ \A i \in 1..Len(consulted) : consulted[i].provider = providers[i]
        /\ \A i \in 1..(Len(consulted) - 1) :
               consulted[i].outcome \in {"unavailable", "raised"}
        /\ (response # None <=>
               (consulted # << >> /\ Last(consulted).outcome = "returned"))
        /\ (response # None =>
               /\ producer = Last(consulted).provider
               /\ response = Last(consulted).detail)

\* C7 witness: the model-backed provider was available and its analyze
\* succeeded; its result is held and the rule-based provider was not consulted.
C7_Witness ==
    /\ workflow = "push"
    /\ pc = "review"
    /\ Len(consulted) = 1
    /\ consulted[1].provider = "OllamaProvider"
    /\ consulted[1].outcome = "returned"
    /\ producer = "OllamaProvider"
    /\ response.strategy = "merge"

\* C8: in the push workflow, when the recommendation requires manual review or
\* has no commands, no VCS command is executed, whatever the provider, the
\* confidence and the -y flag.
C8_NoExecutionOnManualReview ==
    (/\ workflow = "push"
     /\ response # None
     /\ (response.requires_manual_review \/ Len(response.commands) = 0)) =>
        executed = << >>

\* C8 witness: with -y, the model-backed provider returned a plan of two
\* commands at confidence 99 that requires manual review, and push returned.
C8_Witness ==
    /\ workflow = "push"
    /\ yes
    /\ pc = "done"
    /\ producer = "OllamaProvider"
    /\ response.requires_manual_review
    /\ Len(response.commands) = 2
    /\ response.confidence = 99
    /\ executed = << >>

\* the commands attempted so far are the first commands of the plan, in list
\* order and once each; only the last attempt can have failed, and then the
\* workflow has aborted without reporting success
C9_PrefixOfPlan ==
    (workflow = "push" /\ executed # << >>) =>
        /\ Len(executed) <= Len(response.commands)
        /\ \A i \in 1..Len(executed) : executed[i].cmd = response.commands[i]
        /\ \A i \in 1..(Len(executed) - 1) : executed[i].ok
        /\ (~Last(executed).ok =>
               /\ pc = "aborted"
               /\ ~Reported("Success! All commands executed."))

\* C9: push executes the commands of the plan in list order and halts at the
\* first failure: commands 0..k are attempted once each, and after the failure
\* of command k no command (of the plan, or a rollback) is issued and the
\* workflow stays aborted.
C9_HaltAtFirstFailure ==
    /\ []C9_PrefixOfPlan
    /\ [][(workflow = "push" /\ executed # << >> /\ ~Last(executed).ok)
            => (executed' = executed /\ pc' = "aborted")]_vars

\* C9 witness: a plan of four commands, the first two completed, the command
\* at index 2 failed and the workflow aborted.
C9_Witness ==
    /\ workflow = "push"
    /\ pc = "aborted"
    /\ response # None
    /\ Len(response.commands) = 4
    /\ Len(executed) = 3
    /\ executed[1].ok /\ executed[2].ok /\ ~executed[3].ok
    /\ executed[3].cmd = "git stash pop"

SuccessReports ==
    {"[OK] Changes stashed", "[OK] Pull successful", "[OK] Changes restored",
     "Resolution complete!", "[OK] Pushed successfully!",
     "Success! All commands executed."}

\* C10 as claimed: in push and in resolve, once a command has returned failure
\* no further command is issued, and the failed command is not reported as a
\* success.
C10_NoCommandAfterFailure ==
    (workflow \in {"push", "resolve"} /\ executed # << >>) =>
        /\ \A i \in 1..(Len(executed) - 1) : executed[i].ok
        /\ (~Last(executed).ok => Last(printed) \notin SuccessReports)

\* C11: in push without -y the confirmation precedes the first command: a
\* command is executed only after the single prompt was answered yes, a
\* declined or unanswered prompt ends the workflow with nothing executed, and
\* once a command has been executed no further prompt is shown.
C11_ConfirmationFirst ==
    /\ []((workflow = "push" /\ ~yes) =>
            /\ (executed # << >> => prompts = << Prompt("execute", "yes") >>)
            /\ ((prompts # << >> /\ Last(prompts).answer # "yes") =>
                    (executed = << >> /\ pc = "done")))
    /\ [][(workflow = "push" /\ executed # << >>) => prompts' = prompts]_vars

\* C11 witness: without -y the prompt returned no answer; push reported the
\* cancellation and returned with nothing executed.
C11_Witness ==
    /\ workflow = "push"
    /\ ~yes
    /\ prompts = << Prompt("execute", "None") >>
    /\ pc = "done"
    /\ Reported("Operation cancelled")
    /\ executed = << >>

\* C12: every GitContext returned by build_context has uncommitted_changes
\* equal to modified + created + deleted of the repository status, with
\* staged_changes 0 and has_stash false.
C12_UncommittedSum ==
    (workflow = "heuristic" /\ context # None) =>
        /\ context.uncommitted_changes
             = get_status(repo).modified + get_status(repo).created
               + get_status(repo).deleted
        /\ context.staged_changes = 0
        /\ context.has_stash = FALSE

\* C12 witness: a context built from a status with modified, untracked and
\* staged files.
C12_Witness ==
    /\ workflow = "heuristic"
    /\ context # None
    /\ repo.modified = 1 /\ repo.untracked = 1 /\ repo.staged = 1
    /\ context.uncommitted_changes = 2

IsCalled(i, method) == i \in 1..Len(calls) /\ calls[i].method = method

StatusReads == {"get_status", "get_branch_info"}

\* C13: build_context returns None without fetch or status when the reader is
\* not a repository; otherwise fetch is called before any status read, a fetch
\* that returned false still yields a context, and None is returned only when
\* the status is unavailable.
C13_BuildOrder ==
    (workflow = "heuristic" /\ pc \in {"failed", "built", "recommended"}) =>
        /\ ~repo.valid =>
              /\ context = None
              /\ \A i \in 1..Len(calls) :
                    calls[i].method \notin (StatusReads \cup {"fetch"})
        /\ repo.valid =>
              \E i \in 1..Len(calls) :
                  /\ IsCalled(i, "fetch")
                  /\ \A j \in 1..Len(calls) :
                        calls[j].method \in StatusReads => i < j
        /\ (\E i \in 1..Len(calls) :
                IsCalled(i, "fetch") /\ calls[i].outcome = "False")
              => context # None
        /\ (context = None <=> get_status(repo) = None)

\* C13 witness: the fetch failed and returned false, and a context was built.
C13_Witness ==
    /\ workflow = "heuristic"
    /\ pc = "built"
    /\ IsCalled(2, "fetch")
    /\ calls[2].outcome = "False"
    /\ calls[2].net = "failed"
    /\ context # None

DerivedDivergence(ahead, behind) == ahead > 0 /\ behind > 0

\* C14: every BranchInfo and every GitContext has is_divergent equal to
\* (ahead > 0 and behind > 0) of its own counts.
C14_DivergenceDerived ==
    /\ branch_info # None =>
          branch_info.is_divergent
            = DerivedDivergence(branch_info.ahead, branch_info.behind)
    /\ context # None =>
          context.is_divergent
            = DerivedDivergence(context.commits_ahead, context.commits_behind)

\* C14 witness: resolve holds a divergent BranchInfo and a divergent context.
C14_Witness ==
    /\ workflow = "resolve"
    /\ pc = "choose"
    /\ branch_info.is_divergent
    /\ context.is_divergent
    /\ branch_info.ahead = 1 /\ branch_info.behind = 1

\* C15 as claimed: fetch never raises, and returns false whenever the
\* underlying fetch fails, also when the remote fetched is the first
\* configured one because none is named origin.
C15_FetchNeverRaises ==
    \A i \in 1..Len(calls) :
        calls[i].method = "fetch" =>
            /\ calls[i].outcome \in {"True", "False"}
            /\ (calls[i].net = "failed" => calls[i].outcome = "False")

\* C17 as claimed: get_status reports the sentinel branch name and no tracking
\* branch on a detached HEAD, and reports ahead = behind = 0 whenever a step of
\* the tracking-branch resolution or of the counting fails.
C17_FailureZeroesCounts ==
    (workflow = "heuristic" /\ context # None) =>
        /\ repo.detached =>
              /\ context.local_branch = "HEAD (detached)"
              /\ context.remote_branch = NoneStr
        /\ repo.fail # "none" =>
              /\ context.commits_ahead = 0
              /\ context.commits_behind = 0

Strategies ==
    {"push", "pull-then-push", "stash-pull-push", "rebase", "merge", "manual"}

\* C19 as claimed: every Recommendation returned by AIService.analyze has a
\* strategy of the enumeration and a confidence in 0..100.
C19_RecommendationInRange ==
    (workflow = "push" /\ response # None) =>
        /\ response.strategy \in Strategies
        /\ response.confidence \in 0..100

WellFormed(answer) ==
    /\ answer.kind = "ok"
    /\ answer.text.json
    /\ RequiredFields \subseteq DOMAIN answer.text.obj

C18_ParseOrRaise ==
    workflow = "ollama" =>
      \A i \in DOMAIN consulted :
        LET e == consulted[i]
            a == e.answer
        IN IF ~WellFormed(a) THEN e.outcome = "raised"
           ELSE LET obj == a.text.obj IN
                /\ e.outcome = "returned"
                /\ e.detail.strategy = obj["strategy"]
                /\ e.detail.commands = obj["commands"]
                /\ e.detail.reasoning = obj["reasoning"]
                /\ e.detail.risks =
                     IF "risks" \in DOMAIN obj THEN obj["risks"] ELSE << >>
                /\ e.detail.requires_manual_review =
                     IF "requires_manual_review" \in DOMAIN obj
                     THEN obj["requires_manual_review"] ELSE FALSE
                /\ e.detail.confidence =
                     IF "confidence" \in DOMAIN obj THEN obj["confidence"] ELSE 50

\* a reply with exactly the three required fields was turned into a
\* recommendation carrying the three defaults
C18_Witness ==
    /\ workflow = "ollama"
    /\ pc = "returned"
    /\ DOMAIN consulted[1].answer.text.obj = RequiredFields
    /\ response.strategy = "rebase"
    /\ response.risks = << >>
    /\ ~response.requires_manual_review
    /\ response.confidence = 50


(***************************************************************************)
(* C21: with --no-ai, and for every provider_type other than "ollama", the *)
(* provider list is the rule-based provider alone, and the push workflow   *)
(* sends nothing to the model service: no availability probe and no        *)
(* generation request.                                                     *)
(***************************************************************************)
ProviderTypes == {"ollama", "heuristic", "openai", ""}

\* the requests sent to the model service: consulting the model-backed
\* provider sends the probe, and the generation request when the probe
\* answered that the service is available
RECURSIVE RequestsOf(_)
RequestsOf(log) ==
    IF log = << >> THEN << >>
    ELSE LET e == Head(log) IN
         (IF e.provider # "OllamaProvider" THEN << >>
          ELSE IF e.outcome = "unavailable" THEN << "GET /api/tags" >>
          ELSE << "GET /api/tags", "POST /api/generate" >>)
         \o RequestsOf(Tail(log))

C21_NoAiNoRequests ==
    /\ \A t \in ProviderTypes \ {"ollama"} :
         AIServiceInit(t) = << "HeuristicProvider" >>
    /\ (workflow = "push" /\ no_ai) =>
         /\ providers \in { << >>, << "HeuristicProvider" >> }
         /\ RequestsOf(consulted) = << >>

\* push --no-ai got its recommendation from the rule-based provider
C21_Witness ==
    /\ workflow = "push"
    /\ no_ai
    /\ pc = "review"
    /\ providers = << "HeuristicProvider" >>
    /\ producer = "HeuristicProvider"
    /\ Len(consulted) = 1


(***************************************************************************)
(* C25: every call the push workflow makes for a command of the plan hands *)
(* the VCS exactly the whitespace-separated tokens of that command, less   *)
(* one leading "git" token.                                                *)
(***************************************************************************)
DispatchTokens(cmd) ==
    LET tokens == Split(cmd) IN
    IF tokens # << >> /\ tokens[1] = "git" THEN Tail(tokens) ELSE tokens

C25_UniformDispatch ==
    workflow = "push" =>
      \A i \in DOMAIN executed :
        executed[i].invoked = DispatchTokens(executed[i].cmd)

(***************************************************************************)
(* C26: the rule-based provider returns the fallback (manual, confidence   *)
(* 30, manual review, no commands) exactly for the contexts with ahead>0,  *)
(* behind=0 and uncommitted>0; every other context is decided by one of    *)
(* the rules 1-6.                                                          *)
(***************************************************************************)
AheadAndDirty(ctx) ==
    /\ ctx.commits_ahead > 0
    /\ ctx.commits_behind = 0
    /\ ctx.uncommitted_changes > 0

C26_FallbackExactly ==
    HeuristicDone =>
      /\ context.is_divergent =
           (context.commits_ahead > 0 /\ context.commits_behind > 0)
      /\ (FirstRule(context) = 7) <=> AheadAndDirty(context)
      /\ (response = FallbackResponse) <=> AheadAndDirty(context)
      /\ AheadAndDirty(context) =>
           /\ response.strategy = "manual"
           /\ response.commands = << >>
           /\ response.requires_manual_review
           /\ response.confidence = 30

\* the provider was applied to a branch that is ahead with a dirty tree
C26_Witness ==
    /\ HeuristicDone
    /\ AheadAndDirty(context)
    /\ response = FallbackResponse

(***************************************************************************)
(* C27: with staged changes and no modified and no untracked files the     *)
(* status is not clean while the context has uncommitted_changes = 0, and  *)
(* the rule-based provider decides as for a clean tree.                    *)
(***************************************************************************)
StagedOnly ==
    /\ repo.valid
    /\ repo.staged > 0
    /\ repo.modified = 0
    /\ repo.untracked = 0

IsPull(c) == c.cmd \in {"git pull", "git pull --rebase"}

Answered(question, answer) ==
    \E i \in DOMAIN prompts : prompts[i] = Prompt(question, answer)

Uncommitted(r) == r.modified + r.untracked

OwnDivergence(ahead, behind, is_divergent) ==
    is_divergent = (ahead > 0 /\ behind > 0)

C30_ThreeReads ==
    (workflow = "race" /\ context # None) =>
      /\ OwnDivergence(context.commits_ahead, context.commits_behind,
                       context.is_divergent)
      /\ \E i \in DOMAIN timeline : \E j \in i..Len(timeline) :
           /\ context.uncommitted_changes = Uncommitted(timeline[i])
           /\ context.commits_ahead = timeline[j].ahead
           /\ context.commits_behind = timeline[j].behind
           /\ branch_info # None =>
                /\ OwnDivergence(branch_info.ahead, branch_info.behind,
                                 branch_info.is_divergent)
                /\ \E k \in j..Len(timeline) :
                     /\ branch_info.ahead = timeline[k].ahead
                     /\ branch_info.behind = timeline[k].behind

\* the context combines counts that the repository never had together, and
\* the two divergence flags differ
C30_Witness ==
    /\ workflow = "race"
    /\ pc = "ai"
    /\ branch_info.is_divergent # context.is_divergent
    /\ \A i \in DOMAIN timeline :
         ~(/\ Uncommitted(timeline[i]) = context.uncommitted_changes
           /\ timeline[i].ahead = context.commits_ahead
           /\ timeline[i].behind = context.commits_behind)

\* ---------------------------------------------------------------------
\* Claims about the commit message generator
\* ---------------------------------------------------------------------

\* the runs of generate recorded so far
Runs == { generated[i] : i \in DOMAIN generated }

HeuristicRan(run) == "heuristic" \in Range(run.paths)

\* C22: generate never raises, whatever the diff, the status and the answers
\* of the model service; the model-backed path is tried first exactly when
\* the availability probe succeeds, otherwise the heuristic path alone runs,
\* and the result is a string, possibly the empty one.
C22_GenerateTotal ==
    \A run \in Runs :
      /\ ~run.raised
      /\ run.value \in STRING
      /\ (run.paths[1] = "ai") <=> OllamaIsAvailable(run.probe)
      /\ ~OllamaIsAvailable(run.probe) =>
           /\ run.paths = << "heuristic" >>
           /\ run.value = _generate_heuristic(commit_diff, git_status)

\* the probe ends in a network error and the heuristic message is returned
C22_Witness ==
    /\ workflow = "commit"
    /\ \E run \in Runs :
         /\ run.probe = "error"
         /\ run.paths = << "heuristic" >>
         /\ run.value = "fix: resolve bug"

\* the commit type and the description of a heuristic message
\* "<type>: <description>[\n\n<details>]"
MessageType(message) == SplitOn(message, ": ")[1]

MessageDescription(message) ==
    LET summary == SplitOn(message, "\n")[1] IN
    SubSeq(summary, Len(MessageType(message)) + 3, Len(summary))

\* the first of feat, fix, docs, refactor whose keyword test matches
KeywordType(diff, status) ==
    IF _looks_like_feature(diff) THEN "feat"
    ELSE IF _looks_like_fix(diff) THEN "fix"
    ELSE IF _looks_like_docs(diff, status) THEN "docs"
    ELSE IF _looks_like_refactor(diff) THEN "refactor"
    ELSE "chore"

SmallChangeset == Len(_extract_file_names(commit_diff)) <= LargeChangeset

\* C23 as stated: for at most 50 extracted files the heuristic commit type
\* depends on the keyword tests alone, the first of feature, fix, docs,
\* refactor that matches, chore when none does.
C23_Original ==
    \A run \in Runs :
      (HeuristicRan(run) /\ SmallChangeset) =>
        MessageType(run.value) = KeywordType(commit_diff, git_status)

\* C23 amended: for at most 50 extracted files the type is feat when the
\* feature keywords match or the status counts a new file, otherwise the
\* first of fix, docs, refactor whose keyword test matches, chore when none
\* does; for more than 50 files the summary is "chore: update <n> files".
C23_KeywordsOrNewFiles ==
    \A run \in Runs :
      HeuristicRan(run) =>
        IF SmallChangeset
        THEN MessageType(run.value) =
               IF git_status.created > 0 THEN "feat"
               ELSE KeywordType(commit_diff, git_status)
        ELSE /\ MessageType(run.value) = "chore"
             /\ MessageDescription(run.value) =
                  "update " \o ToString(Len(_extract_file_names(commit_diff)))
                  \o " files"

\* a fix without a feature keyword, next to a new file, is typed feat
C23_Witness ==
    /\ workflow = "commit"
    /\ git_status.created > 0
    /\ ~_looks_like_feature(commit_diff)
    /\ _looks_like_fix(commit_diff)
    /\ \E run \in Runs :
         /\ HeuristicRan(run)
         /\ MessageType(run.value) = "feat"

\* the heuristic ran on a diff whose added lines are all `+def my_feature(`
\* lines, with one new untracked file
MyFeatureCase(run) ==
    /\ HeuristicRan(run)
    /\ git_status.created = 1
    /\ \E i \in DOMAIN commit_diff : StartsWith(commit_diff[i], "+")
    /\ \A i \in DOMAIN commit_diff :
         StartsWith(commit_diff[i], "+") =>
           StartsWith(commit_diff[i], "+def my_feature(")

\* C24 as stated: the message is of type feat and its description contains
\* "implement my_feature".
C24_Original ==
    \A run \in Runs :
      MyFeatureCase(run) =>
        /\ MessageType(run.value) = "feat"
        /\ Contains(MessageDescription(run.value), "implement my_feature")

\* C24 amended: the message is of type feat and its description starts with
\* "implement function my_feature", the name of the function after the
\* kind of item that was added, and does not contain "implement my_feature".
C24_ImplementFunction ==
    \A run \in Runs :
      MyFeatureCase(run) =>
        /\ MessageType(run.value) = "feat"
        /\ StartsWith(MessageDescription(run.value),
                      "implement function my_feature")
        /\ ~Contains(MessageDescription(run.value), "implement my_feature")

C24_Witness ==
    /\ workflow = "commit"
    /\ commit_diff = << "+def my_feature(x):", "Untracked files:", "  notes.txt" >>
    /\ \E run \in Runs :
         /\ MyFeatureCase(run)
         /\ run.value =
              "feat: implement function my_feature\n\n- add function my_feature"

\* the generation request fails without an exception, or brings no text
SilentFailure(answer) ==
    \/ answer.kind \in {"error", "status", "body_not_json", "no_response_text"}
    \/ answer.kind = "ok" /\ StripText(answer.reply.text) = EmptyText

\* C28: the heuristic path runs only when the probe fails or the
\* model-backed path raises; a run whose probe succeeds and whose request
\* fails silently returns "" without the heuristic path, and the heuristic
\* path never returns "".
C28_NoFallbackOnSilentFailure ==
    \A run \in Runs :
      /\ HeuristicRan(run) =>
           \/ ~OllamaIsAvailable(run.probe)
           \/ _generate_with_ai(commit_diff, git_status, run.answer).raised
      /\ (OllamaIsAvailable(run.probe) /\ SilentFailure(run.answer)) =>
           /\ run.value = ""
           /\ run.paths = << "ai" >>
      /\ HeuristicRan(run) => run.value # ""

\* the service is up, answers the request with an error status, and the
\* result is empty although the diff adds a function
C28_Witness ==
    /\ workflow = "commit"
    /\ commit_diff = << "+def my_feature(x):" >>
    /\ \E run \in Runs :
         /\ run.probe = "200"
         /\ run.answer.kind = "status"
         /\ run.paths = << "ai" >>
         /\ run.value = ""

====
